---- MODULE Spec2Model ----
(***************************************************************************)
(* GeoFix: the three-tier decision engine (rules -> LLM oracle -> human    *)
(* review), the rule set, and the fix_all_auto pipeline with the fix       *)
(* registry and the audit log.                                             *)
(*                                                                         *)
(* Numbers are fixed-point integers in hundredths: a confidence of 0.80 is *)
(* 80, an overlap ratio of 0.98 is 98, an area of 1.0 m2 is 100, an        *)
(* accuracy of 10.0 m is 1000.                                             *)
(***************************************************************************)
EXTENDS Integers, Sequences, FiniteSets, TLC

VARIABLES
    rules,          \* RuleSet._rules of the engine under test: list of Rule
    pc,             \* "ready": no decide() call made yet; "decided": one returned or raised
    call,           \* the arguments of the decide() call: error, metadata, rules_only
    strategy,       \* decide's local `strategy`: what rules.evaluate returned (Optional)
    called,         \* names of the rule functions evaluate called, in call order
    llm_calls,      \* how many times decide invoked llm.reason
    llm_input,      \* the oracle's behaviour when it was invoked (Optional)
    llm_outcome,    \* how llm.reason ended: "skipped", "returned", "raised"
    llm_strategy,   \* decide's local `llm_strategy` (Optional)
    ret,            \* the FixStrategy decide returned (Optional; None if it raised)
    raised,         \* the exception that escaped decide ("" when it returned)
    errors,         \* tools._state["errors"]: the detected errors fix_all_auto walks
    ppc,            \* position of fix_all_auto: "idle", "loop", "done"
    idx,            \* loop index i of fix_all_auto (0-based)
    applied,        \* fix_all_auto counter
    skipped,        \* fix_all_auto counter
    pending,        \* fix_all_auto counter
    fixed_results,  \* fix_all_auto map error_id -> fixed geometry (set of pairs)
    audit_log,      \* rows of the audit_log table
    rows_at_start,  \* number of audit rows when fix_all_auto was entered
    fixed_layer,    \* rows fix_all_auto saved as layer buildings_fixed (Optional)
    fix_results,    \* per loop iteration of fix_all_auto: the local `result` (Optional)
    fix_op,         \* what registry.get(name) returned: an operation name (Optional)
    fix_call,       \* the apply call made on fix_op: strategy and library behaviour (Optional)
    fix_outcome,    \* how that apply call ended: FixResult or exception (Optional)
    db_open,        \* AuditDatabase._conn is not None
    opens,          \* number of sqlite3.connect calls made on the store path
    insert_call,    \* the entry of the last insert call (Optional)
    insert_count,   \* number of insert calls that returned
    last_rowid,     \* the row id the last returning insert returned (0: none yet)
    bulk_rows,      \* rows written by a repeated log_fix call
    query_call,     \* arguments of the query call, if the last read was one (Optional)
    query_result,   \* what it returned
    count_call,     \* argument of the count call, if the last read was one (Optional)
    count_result,   \* what it returned
    summary,        \* what get_session_summary returned, if the last read was one
    layer,          \* the error layer OVC wrote: its name and rows (Optional)
    uuids,          \* the uuids uuid4 has returned
    runs,           \* what each _convert_layer call on the layer returned
    gdf,            \* the features handed to _detect_overlaps (Optional)
    overlaps,       \* what _detect_overlaps returned (Optional)
    val_call,       \* the validate_fix call made: validator and arguments (Optional)
    val_result,     \* the ValidationResult it returned (Optional)
    cache_cfg,      \* the ResponseCache constructed: max_size and ttl (Optional)
    cache,          \* ResponseCache._cache in dict order: key, response, timestamp
    now,            \* time.time(), in seconds
    cache_steps,    \* number of put, get and invalidate calls made
    cache_op,       \* the last of these calls and its arguments (Optional)
    got,            \* what the last get returned (Optional)
    last_put,       \* per key, the response and time of the latest put call
    use_order,      \* the keys put or returned by get, least recently used first
    batch_call,     \* the decide_batch call made: errors, metadata, oracle behaviours (Optional)
    batch_invoked,  \* the errors decide was invoked on by that call, in call order
    batch_ret,      \* the list decide_batch returned (Optional; None if it raised)
    batch_raised,   \* the exception that escaped decide_batch ("" when it returned)
    batch_errors,   \* the caller's error list after the call
    agent_pc,       \* position of GeoFixAgent.stream: "idle", "llm", "tools", "done"
    agent_step,     \* the loop variable _step of stream
    llm_rounds,     \* number of llm_with_tools.stream calls made
    available,      \* names of the tools bound for this call
    messages,       \* the local `messages` of stream: the kind of each message
    full_response,  \* the merged response of the current round (Optional)
    tool_i,         \* position in full_response.tool_calls (1-based)
    tool_result,    \* the local `result` of the last tool call ("" before any)
    agent_exc       \* the exception that escaped stream ("" if none)

engineVars == <<rules, pc, call, strategy, called, llm_calls, llm_input,
                llm_outcome, llm_strategy, ret, raised>>
pipelineVars == <<errors, ppc, idx, applied, skipped, pending, fixed_results,
                  audit_log, rows_at_start, fixed_layer, fix_results>>
applyVars == <<fix_op, fix_call, fix_outcome>>
storeVars == <<db_open, opens, insert_call, insert_count, last_rowid, bulk_rows,
               query_call, query_result, count_call, count_result, summary>>
detectVars == <<layer, uuids, runs, gdf, overlaps>>
valVars == <<val_call, val_result>>
cacheVars == <<cache_cfg, cache, now, cache_steps, cache_op, got, last_put, use_order>>
batchVars == <<batch_call, batch_invoked, batch_ret, batch_raised, batch_errors>>
agentVars == <<agent_pc, agent_step, llm_rounds, available, messages, full_response, tool_i, tool_result, agent_exc>>
auxVars == <<valVars, cacheVars, batchVars, agentVars>>
coreVars == <<engineVars, pipelineVars, applyVars, storeVars, detectVars>>
pipelineLocals == <<errors, ppc, idx, applied, skipped, pending, fixed_results,
                    rows_at_start, fixed_layer, fix_results>>
sideVars == <<fix_op, fix_call, fix_outcome,
              db_open, opens, insert_call, insert_count, last_rowid, bulk_rows,
              query_call, query_result, count_call, count_result, summary,
              layer, uuids, runs, gdf, overlaps,
              val_call, val_result,
              cache_cfg, cache, now, cache_steps, cache_op, got, last_put, use_order,
              batch_call, batch_invoked, batch_ret, batch_raised, batch_errors,
              agent_pc, agent_step, llm_rounds, available, messages, full_response, tool_i, tool_result, agent_exc>>
vars == <<rules, pc, call, strategy, called, llm_calls, llm_input,
          llm_outcome, llm_strategy, ret, raised,
          errors, ppc, idx, applied, skipped, pending, fixed_results,
          audit_log, rows_at_start, fixed_layer, fix_results,
          fix_op, fix_call, fix_outcome,
          db_open, opens, insert_call, insert_count, last_rowid, bulk_rows,
          query_call, query_result, count_call, count_result, summary,
          layer, uuids, runs, gdf, overlaps,
          val_call, val_result,
          cache_cfg, cache, now, cache_steps, cache_op, got, last_put, use_order,
          batch_call, batch_invoked, batch_ret, batch_raised, batch_errors,
          agent_pc, agent_step, llm_rounds, available, messages, full_response, tool_i, tool_result, agent_exc>>

----------------------------------------------------------------------------
(* Python values.  Optional[X] is a sequence of length <= 1.               *)

None == <<>>
Some(x) == <<x>>
The(o) == o[1]

\* A Python/JSON scalar: its type tag and its payload.
PyStr(s) == [t |-> "str", s |-> s, n |-> 0]
PyNum(n) == [t |-> "num", s |-> "", n |-> n]
PyNull == [t |-> "null", s |-> "", n |-> 0]
PyList == [t |-> "list", s |-> "", n |-> 0]

\* A dict is a set of <<key, value>> pairs with distinct keys.
HasKey(d, k) == \E p \in d : p[1] = k
DictGet(d, k, default) ==
    IF HasKey(d, k) THEN (CHOOSE p \in d : p[1] = k)[2] ELSE default

\* float("inf"), the default of the area properties
Inf == 1000000000

----------------------------------------------------------------------------
(* Core data model                                                         *)

\* FixTier values
RULE_BASED == "rule_based"
LLM_REASONING == "llm_reasoning"
HUMAN_REVIEW == "human_review"

\* FeatureMetadata(feature_id=fid) with the dataclass defaults
FeatureMetadata(fid) ==
    [feature_id |-> fid, source |-> "unknown", accuracy_m |-> 1000, confidence |-> 50]

\* A geometry, as far as the fixes and their validation look at it.
Geom(valid, empty, area) == [is_valid |-> valid, is_empty |-> empty, area |-> area]

DetectedError(id, type, geom, feats, props) ==
    [error_id |-> id, error_type |-> type, geometry |-> geom,
     affected_features |-> feats, properties |-> props]

\* FixStrategy: parameters is a dict or (from an oracle) any other JSON value.
FixStrategy(error, fix_type, tier, confidence, parameters, reasoning) ==
    [error |-> error, fix_type |-> fix_type, tier |-> tier,
     confidence |-> confidence, parameters |-> parameters, reasoning |-> reasoning]

Params(items) == [t |-> "dict", items |-> items]
NonDictParams == [t |-> "other", items |-> {}]

----------------------------------------------------------------------------
(* decision/confidence.py                                                  *)

Abs(x) == IF x < 0 THEN 0 - x ELSE x
Max2(x, y) == IF x >= y THEN x ELSE y
Min2(x, y) == IF x <= y THEN x ELSE y

accuracy_difference(meta_a, meta_b) == Abs(meta_a.accuracy_m - meta_b.accuracy_m)

confidence_from_accuracy_gap(gap) ==
    IF gap >= 1000 THEN 95
    ELSE IF gap >= 500 THEN 85
    ELSE IF gap >= 200 THEN 75
    ELSE IF gap >= 100 THEN 65
    ELSE 55

confidence_from_overlap_ratio(ratio) ==
    IF ratio >= 98 THEN 95
    ELSE IF ratio >= 80 THEN 85
    ELSE IF ratio >= 60 THEN 75
    ELSE IF ratio >= 40 THEN 65
    ELSE 55

RECURSIVE Product(_)
Product(scores) ==
    IF scores = <<>> THEN 1 ELSE Max2(Head(scores), 1) * Product(Tail(scores))

RECURSIVE Power(_, _)
Power(b, e) == IF e = 0 THEN 1 ELSE b * Power(b, e - 1)

\* Geometric mean of the scores, each floored at 0.01; rounded down to a hundredth.
combined_confidence(scores) ==
    IF scores = <<>> THEN 0
    ELSE LET n == Len(scores)
             p == Product(scores)
         IN  CHOOSE r \in 0..100 : Power(r, n) <= p /\ p < Power(r + 1, n)

----------------------------------------------------------------------------
(* decision/rules.py: the built-in rules.  A rule call ends in a value     *)
(* (None or a FixStrategy) or in an exception.                             *)

Returns(v) == [raised |-> FALSE, value |-> v]
Raises == [raised |-> TRUE, value |-> None]

_get_meta(meta, fid) == DictGet(meta, fid, FeatureMetadata(fid))

\* error.properties.get(key, default) used as a number: comparing a value that
\* is no number with a float raises TypeError.
IsNum(v) == v.t = "num"
Prop(error, key, default) == DictGet(error.properties, key, default)

rule_duplicate_same_source(error, meta) ==
    IF error.error_type \notin {"building_overlap", "duplicate_geometry"}
    THEN Returns(None)
    ELSE LET ratio == Prop(error, "overlap_ratio", PyNum(0)) IN
         IF ~IsNum(ratio) THEN Raises
         ELSE IF ratio.n < 98 THEN Returns(None)
         ELSE IF Len(error.affected_features) < 2 THEN Returns(None)
         ELSE LET a == error.affected_features[1]
                  b == error.affected_features[2]
                  ma == _get_meta(meta, a)
                  mb == _get_meta(meta, b)
              IN  IF ma.source # mb.source THEN Returns(None)
                  ELSE Returns(Some(FixStrategy(error, PyStr("delete"), RULE_BASED, 95,
                           Params({<<"delete_feature",
                                     PyStr(IF ma.confidence >= mb.confidence THEN b ELSE a)>>}),
                           PyStr("Duplicate (ratio={ratio:.2f}) from same source '{ma.source}'"))))

rule_duplicate_diff_source(error, meta) ==
    IF error.error_type \notin {"building_overlap", "duplicate_geometry"}
    THEN Returns(None)
    ELSE LET ratio == Prop(error, "overlap_ratio", PyNum(0)) IN
         IF ~IsNum(ratio) THEN Raises
         ELSE IF ratio.n < 98 THEN Returns(None)
         ELSE IF Len(error.affected_features) < 2 THEN Returns(None)
         ELSE LET a == error.affected_features[1]
                  b == error.affected_features[2]
                  ma == _get_meta(meta, a)
                  mb == _get_meta(meta, b)
                  keep == IF ma.accuracy_m <= mb.accuracy_m THEN a ELSE b
                  delete == IF keep = a THEN b ELSE a
              IN  IF ma.source = mb.source THEN Returns(None)
                  ELSE Returns(Some(FixStrategy(error, PyStr("delete"), RULE_BASED, 85,
                           Params({<<"delete_feature", PyStr(delete)>>,
                                   <<"keep_feature", PyStr(keep)>>}),
                           PyStr("Duplicate from different sources. Keeping higher accuracy."))))

rule_partial_overlap_accuracy(error, meta) ==
    IF error.error_type # "building_overlap" THEN Returns(None)
    ELSE LET ratio == Prop(error, "overlap_ratio", PyNum(0)) IN
         IF ~IsNum(ratio) THEN Raises
         ELSE IF ratio.n >= 98 \/ ratio.n < 30 THEN Returns(None)
         ELSE IF Len(error.affected_features) < 2 THEN Returns(None)
         ELSE LET a == error.affected_features[1]
                  b == error.affected_features[2]
                  ma == _get_meta(meta, a)
                  mb == _get_meta(meta, b)
                  gap == accuracy_difference(ma, mb)
                  conf == combined_confidence(<<confidence_from_overlap_ratio(ratio.n),
                                                confidence_from_accuracy_gap(gap)>>)
                  snap_target == IF ma.accuracy_m > mb.accuracy_m THEN a ELSE b
                  reference == IF snap_target = a THEN b ELSE a
              IN  IF gap <= 500 THEN Returns(None)
                  ELSE Returns(Some(FixStrategy(error, PyStr("snap"), RULE_BASED, conf,
                           Params({<<"snap_feature", PyStr(snap_target)>>,
                                   <<"reference_feature", PyStr(reference)>>}),
                           PyStr("Partial overlap with accuracy gap. Snap less accurate feature."))))

rule_sliver_overlap(error, meta) ==
    IF error.error_type # "building_overlap" THEN Returns(None)
    ELSE IF Prop(error, "overlap_type", PyStr("")) # PyStr("sliver") THEN Returns(None)
    ELSE LET area == Prop(error, "inter_area_m2", PyNum(Inf)) IN
         IF ~IsNum(area) THEN Raises
         ELSE IF area.n >= 100 THEN Returns(None)
         ELSE Returns(Some(FixStrategy(error, PyStr("trim"), RULE_BASED, 90, Params({}),
                  PyStr("Sliver overlap ({area:.2f} m2) - auto-trimming."))))

\* Variant of the small-road-conflict rule without the area limit.
rule_small_road_conflict_any_area(error, meta) ==
    IF error.error_type # "building_on_road" THEN Returns(None)
    ELSE Returns(Some(FixStrategy(error, PyStr("nudge"), RULE_BASED, 85,
             Params({<<"min_distance_m", PyNum(300)>>}),
             PyStr("Small road conflict - nudging building off road."))))

rule_small_road_conflict(error, meta) ==
    IF error.error_type # "building_on_road" THEN Returns(None)
    ELSE LET area == Prop(error, "inter_area_m2", PyNum(Inf)) IN
         IF ~IsNum(area) THEN Raises
         ELSE IF area.n >= 200 THEN Returns(None)
         ELSE Returns(Some(FixStrategy(error, PyStr("nudge"), RULE_BASED, 85,
                  Params({<<"min_distance_m", PyNum(300)>>}),
                  PyStr("Small road conflict ({area:.2f} m2) - nudging building off road."))))

rule_invalid_geometry(error, meta) ==
    IF error.error_type # "invalid_geometry" THEN Returns(None)
    ELSE Returns(Some(FixStrategy(error, PyStr("make_valid"), RULE_BASED, 95, Params({}),
             PyStr("Self-intersecting / invalid geometry - applying make_valid()."))))

rule_tiny_building(error, meta) ==
    IF error.error_type # "unreasonable_area" THEN Returns(None)
    ELSE LET area == Prop(error, "area_m2", PyNum(Inf)) IN
         IF ~IsNum(area) THEN Raises
         ELSE IF area.n >= 100 THEN Returns(None)
         ELSE Returns(Some(FixStrategy(error, PyStr("delete"), RULE_BASED, 70, Params({}),
                  PyStr("Unreasonably small building ({area:.2f} m2) - flagged for deletion."))))

rule_low_compactness(error, meta) ==
    IF error.error_type # "low_compactness" THEN Returns(None)
    ELSE LET compactness == Prop(error, "compactness", PyNum(100)) IN
         IF ~IsNum(compactness) THEN Raises
         ELSE IF compactness.n >= 5 THEN Returns(None)
         ELSE Returns(Some(FixStrategy(error, PyStr("simplify"), RULE_BASED, 75,
                  Params({<<"tolerance", PyNum(50)>>, <<"preserve_topology", PyNum(1)>>}),
                  PyStr("Extremely low compactness ({compactness:.3f}) - simplifying."))))

rule_boundary_clip(error, meta) ==
    IF error.error_type # "building_boundary_overlap" THEN Returns(None)
    ELSE Returns(Some(FixStrategy(error, PyStr("clip"), RULE_BASED, 85, Params({}),
             PyStr("Building extends beyond boundary - clipping to boundary."))))

rule_exact_duplicate(error, meta) ==
    IF error.error_type # "duplicate_geometry" THEN Returns(None)
    ELSE IF Len(error.affected_features) < 2 THEN Returns(None)
    ELSE Returns(Some(FixStrategy(error, PyStr("delete"), RULE_BASED, 95,
             Params({<<"delete_feature", PyStr(error.affected_features[2])>>}),
             PyStr("Exact duplicate geometry (WKB match) - deleting duplicate."))))

rule_overlap_by_class(error, meta) ==
    IF error.error_type # "building_overlap" THEN Returns(None)
    ELSE LET error_class == Prop(error, "error_class", PyStr("")) IN
         IF error_class = PyStr("duplicate")
         THEN Returns(Some(FixStrategy(error, PyStr("delete"), RULE_BASED, 80,
                  Params({<<"delete_feature",
                            PyStr(IF error.affected_features # <<>>
                                  THEN error.affected_features[1] ELSE "unknown")>>}),
                  PyStr("Duplicate building (OVC class=duplicate) - flagged for deletion."))))
         ELSE IF error_class = PyStr("sliver")
         THEN Returns(Some(FixStrategy(error, PyStr("trim"), RULE_BASED, 85, Params({}),
                  PyStr("Sliver overlap (OVC class=sliver) - auto-trimming overlap area."))))
         ELSE IF error_class = PyStr("partial")
         THEN Returns(Some(FixStrategy(error, PyStr("snap"), RULE_BASED, 80, Params({}),
                  PyStr("Partial overlap (OVC class=partial) - snapping to reduce overlap."))))
         ELSE Returns(None)

rule_road_conflict_fallback(error, meta) ==
    IF error.error_type # "building_on_road" THEN Returns(None)
    ELSE Returns(Some(FixStrategy(error, PyStr("nudge"), RULE_BASED, 75,
             Params({<<"min_distance_m", PyNum(300)>>}),
             PyStr("Building conflicts with road - nudging off road buffer."))))

rule_outside_boundary(error, meta) ==
    IF error.error_type # "outside_boundary" THEN Returns(None)
    ELSE Returns(Some(FixStrategy(error, PyStr("flag"), RULE_BASED, 80, Params({}),
             PyStr("Building is outside the study area boundary - flagged for review."))))

rule_boundary_overlap_fallback(error, meta) ==
    IF error.error_type # "building_boundary_overlap" THEN Returns(None)
    ELSE Returns(Some(FixStrategy(error, PyStr("clip"), RULE_BASED, 80, Params({}),
             PyStr("Building extends beyond boundary - clipping to boundary."))))

----------------------------------------------------------------------------
(* decision/rules.py: RuleSet                                              *)

\* Rule functions a caller registers besides the built-in ones: one that never
\* matches, one that raises, and two that match with a fixed confidence.
rule_a(error, meta) == Returns(None)
rule_raising(error, meta) == Raises
rule_unsure(error, meta) ==
    Returns(Some(FixStrategy(error, PyStr("simplify"), RULE_BASED, 75, Params({}),
        PyStr("custom rule, unsure"))))
rule_sure(error, meta) ==
    Returns(Some(FixStrategy(error, PyStr("merge"), RULE_BASED, 95, Params({}),
        PyStr("custom rule, sure"))))

CustomFuncs == {"rule_a", "rule_raising", "rule_unsure", "rule_sure"}

\* rule.func(error, metadata): the call of a RuleFunc, by the function's name.
CallRule(func, error, meta) ==
    CASE func = "rule_exact_duplicate" -> rule_exact_duplicate(error, meta)
      [] func = "rule_duplicate_same_source" -> rule_duplicate_same_source(error, meta)
      [] func = "rule_duplicate_diff_source" -> rule_duplicate_diff_source(error, meta)
      [] func = "rule_invalid_geometry" -> rule_invalid_geometry(error, meta)
      [] func = "rule_sliver_overlap" -> rule_sliver_overlap(error, meta)
      [] func = "rule_partial_overlap_accuracy" -> rule_partial_overlap_accuracy(error, meta)
      [] func = "rule_small_road_conflict" -> rule_small_road_conflict(error, meta)
      [] func = "rule_tiny_building" -> rule_tiny_building(error, meta)
      [] func = "rule_low_compactness" -> rule_low_compactness(error, meta)
      [] func = "rule_boundary_clip" -> rule_boundary_clip(error, meta)
      [] func = "rule_overlap_by_class" -> rule_overlap_by_class(error, meta)
      [] func = "rule_road_conflict_fallback" -> rule_road_conflict_fallback(error, meta)
      [] func = "rule_outside_boundary" -> rule_outside_boundary(error, meta)
      [] func = "rule_boundary_overlap_fallback" -> rule_boundary_overlap_fallback(error, meta)
      [] func = "rule_a" -> rule_a(error, meta)
      [] func = "rule_raising" -> rule_raising(error, meta)
      [] func = "rule_unsure" -> rule_unsure(error, meta)
      [] func = "rule_sure" -> rule_sure(error, meta)

Rule(name, priority, func) == [name |-> name, priority |-> priority, func |-> func]

\* list.sort(key=priority): stable, ascending.  An element's place is the
\* number of elements that sort before it, equal keys keeping their order.
SortedPlace(list, i) ==
    1 + Cardinality({j \in 1..Len(list) :
            \/ list[j].priority < list[i].priority
            \/ list[j].priority = list[i].priority /\ j < i})
SortedList(list) ==
    [k \in 1..Len(list) |-> list[CHOOSE i \in 1..Len(list) : SortedPlace(list, i) = k]]
SortByPriority(rs) == CHOOSE s \in {SortedList(list) : list \in {rs}} : TRUE

\* Variant of RuleSet.add that leaves the list in insertion order.
RuleSetAdd_unsorted(rs, name, priority, func) ==
    Append(rs, Rule(name, priority, func))

\* RuleSet.add: append, then sort the list by priority.
RuleSetAdd(rs, name, priority, func) ==
    SortByPriority(Append(rs, Rule(name, priority, func)))

\* The loop of RuleSet.evaluate: a rule fires when its call returns a strategy;
\* a call that raises is logged and the loop goes on.
Fires(rs, i, error, meta) ==
    LET out == CallRule(rs[i].func, error, meta) IN ~out.raised /\ out.value # None

\* RuleSet.evaluate: the strategy of the first rule of the list that fires, or
\* None; `called` lists the rules the loop called, in order.
RuleSetEvaluate(rs, error, meta) ==
    IF \E i \in 1..Len(rs) : Fires(rs, i, error, meta)
    THEN LET w == CHOOSE i \in 1..Len(rs) :
                     Fires(rs, i, error, meta)
                     /\ \A j \in 1..(i - 1) : ~Fires(rs, j, error, meta)
         IN  [value |-> CallRule(rs[w].func, error, meta).value,
              called |-> [k \in 1..w |-> rs[k].name]]
    ELSE [value |-> None, called |-> [k \in 1..Len(rs) |-> rs[k].name]]

\* The (name, priority, func) list of build_default_ruleset, in source order.
DefaultRules ==
    << <<"exact_duplicate", 10, "rule_exact_duplicate">>,
       <<"duplicate_same_source", 20, "rule_duplicate_same_source">>,
       <<"duplicate_diff_source", 30, "rule_duplicate_diff_source">>,
       <<"invalid_geometry", 40, "rule_invalid_geometry">>,
       <<"sliver_overlap", 50, "rule_sliver_overlap">>,
       <<"partial_overlap_accuracy", 60, "rule_partial_overlap_accuracy">>,
       <<"small_road_conflict", 70, "rule_small_road_conflict">>,
       <<"tiny_building", 80, "rule_tiny_building">>,
       <<"low_compactness", 90, "rule_low_compactness">>,
       <<"boundary_clip", 100, "rule_boundary_clip">>,
       <<"overlap_by_class", 200, "rule_overlap_by_class">>,
       <<"road_conflict_fallback", 210, "rule_road_conflict_fallback">>,
       <<"outside_boundary", 220, "rule_outside_boundary">>,
       <<"boundary_overlap_fallback", 230, "rule_boundary_overlap_fallback">> >>

RECURSIVE AddAll(_, _)
AddAll(rs, list) ==
    IF list = <<>> THEN rs
    ELSE AddAll(RuleSetAdd(rs, list[1][1], list[1][2], list[1][3]), Tail(list))

build_default_ruleset == AddAll(<<>>, DefaultRules)

----------------------------------------------------------------------------
(* decision/llm_reasoner.py: the oracle                                     *)

\* The text of an LLM response, as the tokens _parse_response tells apart: a
\* ``` fence, the word json, other prose, and a candidate JSON document.
FENCE == [k |-> "fence", doc |-> None]
JSON_WORD == [k |-> "json", doc |-> None]
PROSE == [k |-> "prose", doc |-> None]
DocTok(d) == [k |-> "doc", doc |-> Some(d)]

\* A candidate JSON document: text json.loads rejects, a JSON array, or a JSON
\* object with its members (a dict of Python values).
Malformed == [form |-> "malformed", members |-> {}]
JsonArray == [form |-> "array", members |-> {}]
JsonObject(members) == [form |-> "object", members |-> members]
PyDict == [t |-> "dict", s |-> "", n |-> 0]

\* text.split("```")[1]: what lies between the first fence and the next one.
FirstFence(text) == CHOOSE i \in 1..Len(text) :
    text[i] = FENCE /\ \A j \in 1..(i - 1) : text[j] # FENCE
AfterFirstFence(text) == SubSeq(text, FirstFence(text) + 1, Len(text))
UpToFence(text) ==
    IF \E i \in 1..Len(text) : text[i] = FENCE
    THEN SubSeq(text, 1, FirstFence(text) - 1)
    ELSE text
ExtractJsonText(content) ==
    IF \E i \in 1..Len(content) : content[i] = FENCE
    THEN LET inner == UpToFence(AfterFirstFence(content))
         IN  IF inner # <<>> /\ inner[1] = JSON_WORD THEN Tail(inner) ELSE inner
    ELSE content

\* json.loads(text): the document, or JSONDecodeError for anything but exactly
\* one well-formed document.
JsonLoads(text) ==
    IF Len(text) = 1 /\ text[1].k = "doc" /\ The(text[1].doc).form # "malformed"
    THEN [ok |-> TRUE, data |-> The(text[1].doc)]
    ELSE [ok |-> FALSE, data |-> Malformed]

\* Strings float() parses, with their value in hundredths.
NumericStrings == {<<"0.9", 90>>}

\* float(v): the number, or the exception float raises.
PyFloat(v) ==
    IF v.t = "num" THEN [exc |-> "", n |-> v.n]
    ELSE IF v.t = "str"
    THEN IF HasKey(NumericStrings, v.s)
         THEN [exc |-> "", n |-> DictGet(NumericStrings, v.s, 0)]
         ELSE [exc |-> "ValueError", n |-> 0]
    ELSE [exc |-> "TypeError", n |-> 0]

\* An exception with its class, for the except clauses that tell classes apart.
RaisesExc(exc) == [raised |-> TRUE, exc |-> exc, value |-> None]
ReturnsVal(v) == [raised |-> FALSE, exc |-> "", value |-> v]

\* LLMReasoner._parse_response: JSONDecodeError, KeyError and TypeError give
\* None; any other exception leaves the method.
_parse_response(content, error) ==
    LET loaded == JsonLoads(ExtractJsonText(content)) IN
    IF ~loaded.ok THEN ReturnsVal(None)
    ELSE IF loaded.data.form # "object" THEN RaisesExc("AttributeError")
    ELSE LET data == loaded.data.members
             conf == PyFloat(DictGet(data, "confidence", PyNum(50)))
             params == DictGet(data, "parameters", PyDict)
         IN  IF conf.exc = "TypeError" THEN ReturnsVal(None)
             ELSE IF conf.exc # "" THEN RaisesExc(conf.exc)
             ELSE ReturnsVal(Some(FixStrategy(error,
                      DictGet(data, "fix_type", PyStr("human_review")),
                      LLM_REASONING,
                      conf.n,
                      IF params.t = "dict" THEN Params({}) ELSE NonDictParams,
                      DictGet(data, "reasoning", PyStr("LLM recommendation")))))

\* What the LLM side does in one call: the client library is missing, the
\* invoke raises (network, timeout), or a response with this content arrives.
OracleBehaviour(client, invoke, content) ==
    [client |-> client, invoke |-> invoke, content |-> content]

\* LLMReasoner.reason: LLMError is re-raised, every other exception gives None.
reason(error, meta, context, oracle) ==
    IF oracle.client = "missing" THEN RaisesExc("LLMError")
    ELSE IF oracle.invoke = "raises" THEN ReturnsVal(None)
    ELSE LET parsed == _parse_response(oracle.content, error) IN
         IF parsed.raised THEN ReturnsVal(None) ELSE ReturnsVal(parsed.value)

----------------------------------------------------------------------------
(* core/config.py: DecisionThresholds                                      *)

auto_fix_min == 80
llm_fix_min == 60

----------------------------------------------------------------------------
(* decision/engine.py: DecisionEngine.decide                               *)

\* str + str concatenates; anything else + str raises TypeError.
PyConcat(v, suffix) ==
    IF v.t = "str" THEN [exc |-> "", v |-> PyStr(v.s \o suffix)]
    ELSE [exc |-> "TypeError", v |-> PyNull]

\* Variant of the Tier 1 test with a strict comparison.
Tier1Returns_strict(rule_strategy) ==
    rule_strategy # None /\ The(rule_strategy).confidence > auto_fix_min

\* Tier 1: the rule strategy is returned when it is confident enough.
Tier1Returns(rule_strategy) ==
    rule_strategy # None /\ The(rule_strategy).confidence >= auto_fix_min

\* Variant of the Tier 2 test with a strict comparison.
Tier2Returns_strict(oracle_strategy) ==
    oracle_strategy # None /\ The(oracle_strategy).confidence > llm_fix_min

\* Tier 2: the oracle's strategy is returned when it is confident enough.
Tier2Returns(oracle_strategy) ==
    oracle_strategy # None /\ The(oracle_strategy).confidence >= llm_fix_min

\* `llm_strategy or strategy`
BestAttempt(oracle_strategy, rule_strategy) ==
    IF oracle_strategy # None THEN oracle_strategy ELSE rule_strategy

\* Tier 3: the human_review strategy built from the best attempt; the string
\* concatenation is evaluated outside every try block.
Tier3(error, best) ==
    IF best = None
    THEN ReturnsVal(Some(FixStrategy(error, PyStr("human_review"), HUMAN_REVIEW, 0,
             Params({}), PyStr("No rule or LLM recommendation available."))))
    ELSE LET text == PyConcat(The(best).reasoning, " -- confidence too low for auto-fix.")
         IN  IF text.exc # "" THEN RaisesExc(text.exc)
             ELSE ReturnsVal(Some(FixStrategy(error, PyStr("human_review"), HUMAN_REVIEW,
                      The(best).confidence, Params({}), text.v)))

\* What a decide call did: its result and its locals.
DecideResult(t3, ev, llm_calls_, llm_outcome_, llm_strategy_) ==
    [ret |-> t3.value, raised |-> t3.exc, strategy |-> ev.value, called |-> ev.called,
     llm_calls |-> llm_calls_, llm_outcome |-> llm_outcome_, llm_strategy |-> llm_strategy_]

\* Variant of Tier 2 without the try block around llm.reason.
AfterReason_uncaught(error, ev, r) ==
    IF r.raised
    THEN DecideResult(RaisesExc(r.exc), ev, 1, "raised", None)
    ELSE IF Tier2Returns(r.value)
    THEN DecideResult(ReturnsVal(r.value), ev, 1, "returned", r.value)
    ELSE DecideResult(Tier3(error, BestAttempt(r.value, ev.value)), ev, 1, "returned", r.value)

\* Tier 2 and Tier 3 of decide, given what rules.evaluate (ev) and llm.reason (r) did.
AfterReason(error, ev, r) ==
    IF r.raised
    THEN DecideResult(Tier3(error, BestAttempt(None, ev.value)), ev, 1, "raised", None)
    ELSE IF Tier2Returns(r.value)
    THEN DecideResult(ReturnsVal(r.value), ev, 1, "returned", r.value)
    ELSE DecideResult(Tier3(error, BestAttempt(r.value, ev.value)), ev, 1, "returned", r.value)

\* Variant of decide that ignores rules_only.
AfterRules_always_asks(error, meta, rules_only, oracle, ev) ==
    IF Tier1Returns(ev.value)
    THEN DecideResult(ReturnsVal(ev.value), ev, 0, "skipped", None)
    ELSE AfterReason(error, ev, reason(error, meta, ev.value, oracle))

\* Tier 1 to 3 of decide, given what rules.evaluate (ev) did.
AfterRules(error, meta, rules_only, oracle, ev) ==
    IF Tier1Returns(ev.value)
    THEN DecideResult(ReturnsVal(ev.value), ev, 0, "skipped", None)
    ELSE IF rules_only
    THEN DecideResult(Tier3(error, BestAttempt(None, ev.value)), ev, 0, "skipped", None)
    ELSE AfterReason(error, ev, reason(error, meta, ev.value, oracle))

\* decide(error, metadata, rules_only) on an engine with rule set rs, the oracle
\* behaving as `oracle` if it is called.
decide(rs, error, meta, rules_only, oracle) ==
    AfterRules(error, meta, rules_only, oracle, RuleSetEvaluate(rs, error, meta))

----------------------------------------------------------------------------
(* fixes/: the fix operations and the registry                             *)

FixResult(strategy_, success, original, fixed, passed) ==
    [strategy |-> strategy_, success |-> success, original_geometry |-> original,
     fixed_geometry |-> fixed, validation_passed |-> passed, new_errors_introduced |-> 0]

\* build_default_registry: the names of the registered operations.
build_default_registry ==
    {"make_valid", "simplify", "delete", "trim", "merge", "snap", "clip", "nudge", "flag"}

\* FixRegistry.get(name): the operation, or None.
RegistryGet(name) ==
    IF name.t = "str" /\ name.s \in build_default_registry THEN Some(name.s) ELSE None

\* What a geometry-library call inside execute does: raises, returns a
\* geometry (or None), or returns a geometry whose is_empty / is_valid / area
\* raise when validate reads them.
LibRaises == [raised |-> TRUE, geom |-> None, unreadable |-> FALSE]
LibReturns(g) == [raised |-> FALSE, geom |-> g, unreadable |-> FALSE]
LibReturnsUnreadable(g) == [raised |-> FALSE, geom |-> Some(g), unreadable |-> TRUE]

\* The parameter holding the second geometry of a two-geometry operation.
GeometryParam(op) ==
    CASE op = "trim" -> "overlap_geometry"
      [] op = "merge" -> "other_geometry"
      [] op = "snap" -> "reference_geometry"
      [] op = "clip" -> "boundary_geometry"
      [] op = "nudge" -> "road_geometry"

\* <Op>Fix.execute(geometry, params); lib is what the geometry library does if
\* execute calls it. params.get on something that is no dict raises.
execute(op, geometry, params, lib) ==
    CASE op = "delete" -> LibReturns(None)
      [] op = "flag" -> LibReturns(Some(geometry))
      [] op = "make_valid" ->
            IF geometry.is_valid THEN LibReturns(Some(geometry)) ELSE lib
      [] op = "simplify" ->
            IF params.t # "dict" THEN LibRaises ELSE lib
      [] OTHER ->
            IF params.t # "dict" THEN LibRaises
            ELSE IF DictGet(params.items, GeometryParam(op), PyNull) = PyNull
            THEN LibReturns(Some(geometry))
            ELSE lib

\* FixOperation.validate
BaseValidate(original, fixed) ==
    /\ fixed # None
    /\ ~The(fixed).is_empty
    /\ The(fixed).is_valid
    /\ ~(original.area > 100 /\ The(fixed).area <= 0)

\* `ratio = fixed.area / original.area` compared in hundredths, when original.area > 0
\* Variant without the lower limit on the area ratio.
AreaRatioAtLeast_unchecked(original, fixed, lo) == TRUE

AreaRatioAtLeast(original, fixed, lo) ==
    original.area > 0 => The(fixed).area * 100 >= lo * original.area

AreaRatioAtMost(original, fixed, hi) ==
    original.area > 0 => The(fixed).area * 100 <= hi * original.area

\* <Op>Fix.validate(original, fixed)
validate(op, original, fixed) ==
    CASE op = "delete" -> TRUE
      [] op = "flag" -> TRUE
      [] op = "make_valid" -> BaseValidate(original, fixed) /\ The(fixed).is_valid
      [] op = "simplify" ->
            BaseValidate(original, fixed) /\ AreaRatioAtLeast(original, fixed, 50)
      [] op = "trim" ->
            BaseValidate(original, fixed) /\ AreaRatioAtLeast(original, fixed, 30)
      [] op = "merge" -> BaseValidate(original, fixed)
      [] op = "snap" ->
            BaseValidate(original, fixed) /\ AreaRatioAtLeast(original, fixed, 50)
                /\ AreaRatioAtMost(original, fixed, 150)
      [] op = "clip" ->
            BaseValidate(original, fixed) /\ AreaRatioAtLeast(original, fixed, 10)
      [] op = "nudge" ->
            BaseValidate(original, fixed) /\ AreaRatioAtLeast(original, fixed, 99)
                /\ AreaRatioAtMost(original, fixed, 101)

\* validate raises when it reads an unreadable geometry; DeleteFix and FlagFix
\* never look at the geometry.
ValidateRaises(op, ex) ==
    ~ex.raised /\ ex.unreadable /\ op \notin {"delete", "flag"}

\* How an apply call ends: it returns a FixResult, or an exception leaves it.
ApplyReturns(result) == [exc |-> "", result |-> Some(result)]
ApplyRaises(exc) == [exc |-> exc, result |-> None]

\* FixOperation.apply(strategy): execute, validate, build the result; an
\* exception of either is caught and gives a failed result.
\* Variant that keeps the geometry of a result that failed validation.
ApplyValidated_keeps_geometry(strategy_, original, fixed, passed) ==
    FixResult(strategy_, passed, original, fixed, passed)

ApplyValidated(strategy_, original, fixed, passed) ==
    FixResult(strategy_, passed, original, IF passed THEN fixed ELSE None, passed)

\* Variant of apply without the except clause.
ApplyExecuted_no_except(op, strategy_, original, ex) ==
    IF ex.raised \/ ValidateRaises(op, ex)
    THEN ApplyRaises("Exception")
    ELSE ApplyReturns(ApplyValidated(strategy_, original, ex.geom,
                                     validate(op, original, ex.geom)))

ApplyExecuted(op, strategy_, original, ex) ==
    IF ex.raised \/ ValidateRaises(op, ex)
    THEN ApplyReturns(FixResult(strategy_, FALSE, original, None, FALSE))
    ELSE ApplyReturns(ApplyValidated(strategy_, original, ex.geom,
                                     validate(op, original, ex.geom)))

apply(op, strategy_, lib) ==
    ApplyExecuted(op, strategy_, strategy_.error.geometry,
                  execute(op, strategy_.error.geometry, strategy_.parameters, lib))

----------------------------------------------------------------------------
(* audit/logger.py                                                         *)

\* `geom.wkt if geom else None`
WktOrNone(geom) == IF geom = None \/ The(geom).is_empty THEN None ELSE geom

\* The row AuditLogger.log_fix inserts (the timestamp is left out).
AuditRow(session_id, result, feature_id, action) ==
    [session_id |-> session_id,
     feature_id |-> feature_id,
     error_type |-> result.strategy.error.error_type,
     error_id |-> result.strategy.error.error_id,
     fix_type |-> result.strategy.fix_type,
     tier |-> result.strategy.tier,
     confidence |-> result.strategy.confidence,
     reasoning |-> result.strategy.reasoning,
     before_wkt |-> WktOrNone(Some(result.original_geometry)),
     after_wkt |-> WktOrNone(result.fixed_geometry),
     action |-> action,
     validation_ok |-> IF result.validation_passed THEN 1 ELSE 0,
     new_errors |-> result.new_errors_introduced]

\* FixAction
FixAction == {"applied", "rolled_back", "skipped", "pending_review"}

----------------------------------------------------------------------------
(* audit/database.py: the audit_log table of the SQLite file               *)

\* The row an INSERT stores: the entry's columns and the AUTOINCREMENT id.
StoredRow(id, entry) ==
    [f \in (DOMAIN entry) \cup {"id"} |-> IF f = "id" THEN id ELSE entry[f]]

\* The columns of a row as they were inserted.
EntryOf(row) == [f \in (DOMAIN row) \ {"id"} |-> row[f]]

\* fix_type TEXT NOT NULL: a NULL makes the INSERT raise IntegrityError.
InsertFails(entry) == entry.fix_type = PyNull

\* executescript(SCHEMA) on connect: CREATE TABLE IF NOT EXISTS keeps the rows.
SchemaScript_recreates(rows) == <<>>

SchemaScript(rows) == rows

\* AUTOINCREMENT: one more than the largest id ever used.
NextRowId(rows) == Len(rows) + 1

\* The table after insert(entry) returned.
TableInsert(rows, entry) == Append(rows, StoredRow(NextRowId(rows), entry))

\* `if feature_id:` -- a filter that is None or the empty string is not applied.
FilterApplies(arg) == arg # None /\ The(arg) # ""

\* The WHERE clause query builds.
Matches(row, feature_id, session_id, error_type) ==
    /\ FilterApplies(feature_id) => row.feature_id = The(feature_id)
    /\ FilterApplies(session_id) => row.session_id = The(session_id)
    /\ FilterApplies(error_type) => row.error_type = The(error_type)

\* LIMIT ?: a negative limit is no limit.
Limited(n, limit) == IF limit < 0 \/ limit > n THEN n ELSE limit

\* ORDER BY id DESC LIMIT ? over the rows selected (which are in id order).
NewestFirst(selected, limit) ==
    [k \in 1..Limited(Len(selected), limit) |-> selected[Len(selected) + 1 - k]]

\* AuditDatabase.query(feature_id, session_id, error_type, limit)
DbQuery(rows, feature_id, session_id, error_type, limit) ==
    LET Test(row) == Matches(row, feature_id, session_id, error_type)
    IN  NewestFirst(SelectSeq(rows, Test), limit)

\* AuditDatabase.count(session_id)
DbCount(rows, session_id) ==
    IF FilterApplies(session_id)
    THEN LET Test(row) == row.session_id = The(session_id) IN Len(SelectSeq(rows, Test))
    ELSE Len(rows)

\* the limit get_session_summary passes to query
SummaryLimit == 10000

\* how many rows of a list carry an action
WithAction(rows, action) ==
    LET Test(row) == row.action = action IN Len(SelectSeq(rows, Test))

\* AuditLogger.get_session_summary() of the logger with session id sid
SessionSummary(rows, sid) ==
    [session_id |-> sid,
     total_actions |-> Len(rows),
     applied |-> WithAction(rows, "applied"),
     rolled_back |-> WithAction(rows, "rolled_back"),
     skipped |-> WithAction(rows, "skipped"),
     pending_review |-> WithAction(rows, "pending_review")]

get_session_summary(table, sid) ==
    SessionSummary(DbQuery(table, None, Some(sid), None, SummaryLimit), sid)

----------------------------------------------------------------------------
(* Inputs                                                                  *)

MaxRules == 2
MaxErrors == 3

RuleNames == <<"r1", "r2", "r3", "r4">>
Priorities == {10, 20}

G_square == Geom(TRUE, FALSE, 10000)
G_bowtie == Geom(FALSE, FALSE, 5000)
G_speck == Geom(TRUE, FALSE, 50)

\* Detected errors: the ones of tests/test_engine.py and one per rule family.
E_dup == DetectedError("t1", "duplicate_geometry", G_square, <<"a", "b">>, {})
E_overlap == DetectedError("t2", "building_overlap", G_square, <<"a", "b">>,
                 {<<"overlap_ratio", PyNum(50)>>})
E_unknown == DetectedError("t3", "unknown_error_type", G_square, <<>>, {})
E_invalid == DetectedError("e4", "invalid_geometry", G_bowtie, <<"a">>, {})
E_tiny == DetectedError("e5", "unreasonable_area", G_speck, <<"a">>,
              {<<"area_m2", PyNum(50)>>})
E_outside == DetectedError("e6", "outside_boundary", G_square, <<"a">>, {})
E_noratio == DetectedError("e7", "building_overlap", G_square, <<"a", "b">>,
                 {<<"overlap_ratio", PyNull>>, <<"error_class", PyStr("sliver")>>})
E_road == DetectedError("e8", "building_on_road", G_square, <<"a">>, {})

Errors == {E_dup, E_overlap, E_unknown, E_invalid, E_tiny, E_outside, E_noratio, E_road}

\* Metadata maps: none, and one that makes the partial-overlap rule fire.
M_ab == {<<"a", [feature_id |-> "a", source |-> "survey", accuracy_m |-> 200, confidence |-> 90]>>,
         <<"b", [feature_id |-> "b", source |-> "osm", accuracy_m |-> 1200, confidence |-> 50]>>}
Metas == {{}, M_ab}

\* Oracle recommendations: JSON objects over these members.
Recommendation(fix_type, confidence, reasoning) ==
    JsonObject({<<"fix_type", fix_type>>, <<"confidence", confidence>>,
                <<"reasoning", reasoning>>, <<"parameters", PyDict>>})

Recommendations ==
    { Recommendation(PyStr(f), PyNum(c), r) :
          f \in {"snap", "explode"}, c \in {30, 60, 150}, r \in {PyStr("LLM says so"), PyNull} }
    \cup { JsonObject({}),
           JsonObject({<<"confidence", PyNum(90)>>, <<"parameters", PyList>>}),
           Recommendation(PyStr("trim"), PyStr("0.9"), PyStr("quoted number")),
           Recommendation(PyStr("trim"), PyStr("high"), PyStr("not a number")),
           Recommendation(PyStr("trim"), PyNull, PyStr("null confidence")),
           Recommendation(PyStr("delete"), PyNum(0 - 20), PyStr("negative")),
           Recommendation(PyNull, PyNum(90), PyStr("no fix type")) }

Contents ==
    { <<DocTok(d)>> : d \in Recommendations \cup {Malformed, JsonArray} }
    \cup { <<FENCE, JSON_WORD, DocTok(JsonObject({})), FENCE>>,
           <<PROSE, FENCE, DocTok(JsonObject({})), FENCE, PROSE>>,
           <<PROSE, DocTok(JsonObject({}))>>,
           <<PROSE>> }

Oracles ==
    { OracleBehaviour("missing", "raises", <<>>), OracleBehaviour("ok", "raises", <<>>) }
    \cup { OracleBehaviour("ok", "responds", c) : c \in Contents }

----------------------------------------------------------------------------
(* The decision engine: a rule set is put together, then decide is called. *)

EngineInit ==
    /\ rules = <<>>
    /\ pc = "ready"
    /\ call = None
    /\ strategy = None
    /\ called = <<>>
    /\ llm_calls = 0
    /\ llm_input = None
    /\ llm_outcome = "skipped"
    /\ llm_strategy = None
    /\ ret = None
    /\ raised = ""

PipelineIdle ==
    /\ errors = <<>>
    /\ ppc = "idle"
    /\ idx = 0
    /\ applied = 0
    /\ skipped = 0
    /\ pending = 0
    /\ fixed_results = {}
    /\ audit_log = <<>>
    /\ rows_at_start = 0
    /\ fixed_layer = None
    /\ fix_results = <<>>

ApplyIdle ==
    /\ fix_op = None
    /\ fix_call = None
    /\ fix_outcome = None

StoreIdle ==
    /\ db_open = FALSE
    /\ opens = 0
    /\ insert_call = None
    /\ insert_count = 0
    /\ last_rowid = 0
    /\ bulk_rows = 0
    /\ query_call = None
    /\ query_result = <<>>
    /\ count_call = None
    /\ count_result = 0
    /\ summary = None

DetectIdle ==
    /\ layer = None
    /\ uuids = {}
    /\ runs = <<>>
    /\ gdf = None
    /\ overlaps = None

ValidateIdle ==
    /\ val_call = None
    /\ val_result = None

CacheIdle ==
    /\ cache_cfg = None
    /\ cache = <<>>
    /\ now = 0
    /\ cache_steps = 0
    /\ cache_op = None
    /\ got = None
    /\ last_put = {}
    /\ use_order = <<>>

BatchIdle ==
    /\ batch_call = None
    /\ batch_invoked = <<>>
    /\ batch_ret = None
    /\ batch_raised = ""
    /\ batch_errors = <<>>

AgentIdle ==
    /\ agent_pc = "idle"
    /\ agent_step = 0
    /\ llm_rounds = 0
    /\ available = {}
    /\ messages = <<>>
    /\ full_response = None
    /\ tool_i = 0
    /\ tool_result = ""
    /\ agent_exc = ""

AuxIdle == ValidateIdle /\ CacheIdle /\ BatchIdle /\ AgentIdle

Init == EngineInit /\ PipelineIdle /\ ApplyIdle /\ StoreIdle /\ DetectIdle /\ AuxIdle

\* RuleSet.add(name, priority, func)
Add(priority, func) ==
    /\ pc = "ready"
    /\ Len(rules) < MaxRules
    /\ rules' = RuleSetAdd(rules, RuleNames[Len(rules) + 1], priority, func)
    /\ UNCHANGED <<pc, call, strategy, called, llm_calls, llm_input, llm_outcome,
                   llm_strategy, ret, raised>>
    /\ UNCHANGED pipelineVars
    /\ UNCHANGED sideVars

\* DecisionEngine() without a rule set: build_default_ruleset()
BuildDefault ==
    /\ pc = "ready"
    /\ rules = <<>>
    /\ rules' = build_default_ruleset
    /\ UNCHANGED <<pc, call, strategy, called, llm_calls, llm_input, llm_outcome,
                   llm_strategy, ret, raised>>
    /\ UNCHANGED pipelineVars
    /\ UNCHANGED sideVars

\* engine.decide(error, meta, rules_only)
Decide(error, meta, rules_only, oracle) ==
    /\ pc = "ready"
    /\ LET d == decide(rules, error, meta, rules_only, oracle) IN
        /\ pc' = "decided"
        /\ call' = Some([error |-> error, metadata |-> meta, rules_only |-> rules_only])
        /\ strategy' = d.strategy
        /\ called' = d.called
        /\ llm_calls' = d.llm_calls
        /\ llm_input' = IF d.llm_calls > 0 THEN Some(oracle) ELSE None
        /\ llm_outcome' = d.llm_outcome
        /\ llm_strategy' = d.llm_strategy
        /\ ret' = d.ret
        /\ raised' = d.raised
    /\ UNCHANGED rules
    /\ UNCHANGED pipelineVars
    /\ UNCHANGED sideVars

Next ==
    \/ \E p \in Priorities, f \in CustomFuncs : Add(p, f)
    \/ BuildDefault
    \/ \E e \in Errors, m \in Metas, ro \in BOOLEAN, o \in Oracles : Decide(e, m, ro, o)

Spec == Init /\ [][Next]_vars

----------------------------------------------------------------------------
(* chat/tools.py: detect_errors, fix_all_auto; audit/logger.py: log_fix    *)

MaxRows == 1

G_empty == Geom(TRUE, TRUE, 0)
LibResults == {LibRaises, LibReturnsUnreadable(G_square)}
                  \cup {LibReturns(Some(g)) : g \in {G_square, G_bowtie, G_speck, G_empty}}

RECURSIVE ErrorLists(_)
ErrorLists(n) ==
    IF n = 0 THEN {<<>>}
    ELSE LET shorter == ErrorLists(n - 1)
         IN  shorter \cup {Append(l, e) : l \in {m \in shorter : Len(m) = n - 1},
                                             e \in Errors}
\* the error ids are fresh uuids: no error occurs twice in a list
DetectedLists == {l \in ErrorLists(MaxErrors) :
                      \A i, j \in 1..Len(l) : i # j => l[i].error_id # l[j].error_id}

\* `fixed_results[error.error_id] = result.fixed_geometry`
DictSet(d, k, v) == {p \in d : p[1] # k} \cup {<<k, v>>}

\* A FixResult someone hands to log_fix.
S_flagged == FixStrategy(E_outside, PyStr("flag"), RULE_BASED, 80, Params({}), PyStr("flagged"))
LoggedResults == {The(apply("flag", S_flagged, LibRaises).result)}
LoggedActions == {"applied", "pending_review"}

\* detect_errors: set_state("errors", errors)
DetectErrors(list) ==
    /\ ppc = "idle"
    /\ errors = <<>>
    /\ list # <<>>
    /\ errors' = list
    /\ UNCHANGED <<ppc, idx, applied, skipped, pending, fixed_results, audit_log,
                   rows_at_start, fixed_layer, fix_results>>
    /\ UNCHANGED engineVars
    /\ UNCHANGED sideVars

\* AuditLogger.log_fix(result, feature_id, action): one row is inserted.
\* The `conn` property: connect and run the schema script if there is no connection.
Connect ==
    /\ db_open' = TRUE
    /\ opens' = IF db_open THEN opens ELSE opens + 1

\* the table as the connection the `conn` property returns sees it
Connected == IF db_open THEN audit_log ELSE SchemaScript(audit_log)

\* AuditDatabase.insert(entry): the INSERT and the commit, or the IntegrityError.
InsertSteps(entry) ==
    /\ Connect
    /\ insert_call' = Some(entry)
    /\ IF InsertFails(entry)
       THEN /\ audit_log' = Connected
            /\ UNCHANGED <<insert_count, last_rowid>>
       ELSE /\ audit_log' = TableInsert(Connected, entry)
            /\ insert_count' = insert_count + 1
            /\ last_rowid' = NextRowId(Connected)
    /\ query_call' = None
    /\ query_result' = <<>>
    /\ count_call' = None
    /\ count_result' = 0
    /\ summary' = None
    /\ UNCHANGED bulk_rows

LogFix(result, feature_id, action) ==
    /\ ppc = "idle"
    /\ Len(audit_log) < MaxRows
    /\ InsertSteps(AuditRow("s1", result, feature_id, action))
    /\ UNCHANGED pipelineLocals
    /\ UNCHANGED engineVars
    /\ UNCHANGED <<applyVars, detectVars, auxVars>>

\* fix_all_auto up to the loop: the early return on no errors, else a fresh
\* DecisionEngine() and registry and zeroed counters.
FixAllAutoStart ==
    /\ ppc = "idle"
    /\ rows_at_start' = Len(audit_log)
    /\ IF errors = <<>>
       THEN /\ ppc' = "done"
            /\ UNCHANGED rules
       ELSE /\ ppc' = "loop"
            /\ rules' = build_default_ruleset
    /\ idx' = 0
    /\ applied' = 0
    /\ skipped' = 0
    /\ pending' = 0
    /\ fixed_results' = {}
    /\ fix_results' = <<>>
    /\ UNCHANGED <<errors, audit_log, fixed_layer>>
    /\ UNCHANGED <<pc, call, strategy, called, llm_calls, llm_input, llm_outcome,
                   llm_strategy, ret, raised>>
    /\ UNCHANGED sideVars

\* The rest of one loop body once the operation was applied; an exception
\* leaving apply would leave fix_all_auto.
StepApplied(error, a) ==
    IF a.exc # ""
    THEN /\ ppc' = "raised"
         /\ UNCHANGED <<idx, applied, skipped, pending, fixed_results, fix_results>>
    ELSE /\ fix_results' = Append(fix_results, a.result)
         /\ idx' = idx + 1
         /\ UNCHANGED ppc
         /\ IF The(a.result).success
            THEN /\ applied' = applied + 1
                 /\ fixed_results' = DictSet(fixed_results, error.error_id,
                                             The(a.result).fixed_geometry)
                 /\ UNCHANGED <<skipped, pending>>
            ELSE /\ skipped' = skipped + 1
                 /\ UNCHANGED <<applied, pending, fixed_results>>
\* The rest of one loop body once decide returned strategy s.
StepDecided(error, s, lib) ==
    IF s.tier = HUMAN_REVIEW
    THEN /\ pending' = pending + 1
         /\ fix_results' = Append(fix_results, None)
         /\ idx' = idx + 1
         /\ UNCHANGED <<ppc, applied, skipped, fixed_results>>
    ELSE IF RegistryGet(s.fix_type) = None
    THEN /\ skipped' = skipped + 1
         /\ fix_results' = Append(fix_results, None)
         /\ idx' = idx + 1
         /\ UNCHANGED <<ppc, applied, pending, fixed_results>>
    ELSE StepApplied(error, apply(The(RegistryGet(s.fix_type)), s, lib))

\* One iteration of the loop of fix_all_auto: decide with rules_only, then
\* apply through the registry. No audit row is written.
FixAllAutoStep(lib) ==
    /\ ppc = "loop"
    /\ idx < Len(errors)
    /\ LET d == decide(rules, errors[idx + 1], {}, TRUE, OracleBehaviour("missing", "raises", <<>>))
       IN  /\ pc' = "decided"
           /\ call' = Some([error |-> errors[idx + 1], metadata |-> {}, rules_only |-> TRUE])
           /\ strategy' = d.strategy
           /\ called' = d.called
           /\ llm_calls' = d.llm_calls
           /\ llm_input' = None
           /\ llm_outcome' = d.llm_outcome
           /\ llm_strategy' = d.llm_strategy
           /\ ret' = d.ret
           /\ raised' = d.raised
           /\ IF d.raised # ""
              THEN /\ ppc' = "raised"
                   /\ UNCHANGED <<idx, applied, skipped, pending, fixed_results, fix_results>>
              ELSE StepDecided(errors[idx + 1], The(d.ret), lib)
    /\ UNCHANGED <<rules, errors, audit_log, rows_at_start, fixed_layer>>
    /\ UNCHANGED sideVars

\* `fixed_results.get(error.error_id, error.geometry)`
ResultGeometry(results, error) ==
    IF HasKey(results, error.error_id)
    THEN (CHOOSE p \in results : p[1] = error.error_id)[2]
    ELSE Some(error.geometry)

\* The rows fix_all_auto rebuilds from the errors: deleted and empty geometries
\* are left out.
RECURSIVE FixedRows(_, _)
FixedRows(list, results) ==
    IF list = <<>> THEN <<>>
    ELSE LET geom == ResultGeometry(results, Head(list))
             row == [error_id |-> Head(list).error_id, geometry |-> geom,
                     fixed_status |-> IF HasKey(results, Head(list).error_id)
                                      THEN "fixed" ELSE "unfixed"]
         IN  (IF geom = None \/ The(geom).is_empty THEN <<>> ELSE <<row>>)
                 \o FixedRows(Tail(list), results)

\* fix_all_auto after the loop: the summary and, when the OVC outputs exist,
\* the save of the fixed layer; a failing save is logged and swallowed.
FixAllAutoFinish(outputs_exist, save_ok) ==
    /\ ppc = "loop"
    /\ idx = Len(errors)
    /\ ppc' = "done"
    /\ fixed_layer' = IF outputs_exist /\ save_ok
                      THEN Some(FixedRows(errors, fixed_results))
                      ELSE fixed_layer
    /\ UNCHANGED <<errors, idx, applied, skipped, pending, fixed_results, audit_log,
                   rows_at_start, fix_results>>
    /\ UNCHANGED engineVars
    /\ UNCHANGED sideVars

PipelineNext ==
    \/ \E l \in DetectedLists : DetectErrors(l)
    \/ \E r \in LoggedResults, a \in LoggedActions : LogFix(r, "a", a)
    \/ FixAllAutoStart
    \/ \E lib \in LibResults : FixAllAutoStep(lib)
    \/ \E oe \in BOOLEAN, ok \in BOOLEAN : FixAllAutoFinish(oe, ok)

PipelineSpec == Init /\ [][PipelineNext]_vars

----------------------------------------------------------------------------
(* fixes/: registry.get(name), then fix_op.apply(strategy)                 *)

\* A geometry passed as a parameter value.
PyGeom == [t |-> "geom", s |-> "", n |-> 0]
GeomParams == Params({<<"overlap_geometry", PyGeom>>, <<"other_geometry", PyGeom>>,
                      <<"reference_geometry", PyGeom>>, <<"boundary_geometry", PyGeom>>,
                      <<"road_geometry", PyGeom>>})

G_point == Geom(TRUE, FALSE, 0)
InputGeometries == {G_square, G_bowtie, G_speck, G_point, G_empty}
\* areas around the validation limits for an original area of 10000
ResultAreas == {0, 999, 1000, 2999, 3000, 4999, 5000, 9899, 9900, 10000, 10100, 10101,
                15000, 15001}
ResultGeometries == {Geom(TRUE, FALSE, a) : a \in ResultAreas} \cup {G_bowtie, G_empty}
ApplyLibResults == {LibRaises, LibReturns(None), LibReturnsUnreadable(G_square)}
                       \cup {LibReturns(Some(g)) : g \in ResultGeometries}

LookupNames == {PyStr(n) : n \in build_default_registry \cup {"human_review", "explode"}}
                   \cup {PyNull}
InputParams == {Params({}), GeomParams, NonDictParams}
AppliedStrategy(op, g, params) ==
    FixStrategy(DetectedError("e1", "building_overlap", g, <<"a", "b">>, {}),
                PyStr(op), RULE_BASED, 90, params, PyStr("apply"))

\* fix_op = registry.get(name)
RegistryLookup(name) ==
    /\ fix_call = None
    /\ fix_op' = RegistryGet(name)
    /\ UNCHANGED <<fix_call, fix_outcome>>
    /\ UNCHANGED <<engineVars, pipelineVars, storeVars, detectVars, auxVars>>

\* fix_op.apply(strategy), for a strategy on an error with geometry g
Apply(g, params, lib) ==
    /\ fix_op # None
    /\ fix_call = None
    /\ fix_call' = Some([strategy |-> AppliedStrategy(The(fix_op), g, params), lib |-> lib])
    /\ fix_outcome' = Some(apply(The(fix_op), AppliedStrategy(The(fix_op), g, params), lib))
    /\ UNCHANGED fix_op
    /\ UNCHANGED <<engineVars, pipelineVars, storeVars, detectVars, auxVars>>

ApplyNext ==
    \/ \E n \in LookupNames : RegistryLookup(n)
    \/ \E g \in InputGeometries, params \in InputParams, l \in ApplyLibResults :
           Apply(g, params, l)

ApplySpec == Init /\ [][ApplyNext]_vars

----------------------------------------------------------------------------
(* The audit store: AuditDatabase and AuditLogger on one store path        *)

MaxInserts == 3
MaxOpens == 2

\* An entry dict as the database tests build it (_sample_entry).
Entry(session_id, feature_id, error_type, fix_type, action) ==
    [session_id |-> session_id,
     feature_id |-> feature_id,
     error_type |-> error_type,
     error_id |-> "err_1",
     fix_type |-> fix_type,
     tier |-> RULE_BASED,
     confidence |-> 95,
     reasoning |-> PyStr("test reasoning"),
     before_wkt |-> Some(G_square),
     after_wkt |-> None,
     action |-> action,
     validation_ok |-> 1,
     new_errors |-> 0]

Entries ==
    {Entry("s1", "a", "building_overlap", PyStr("delete"), "applied"),
     Entry("s2", "b", "invalid_geometry", PyStr("make_valid"), "rolled_back"),
     Entry("", "a", "building_overlap", PyStr("flag"), "skipped"),
     Entry("s1", "a", "building_overlap", PyNull, "applied")}

FilterArgs(values) == {None, Some("")} \cup {Some(v) : v \in values}
DefaultLimit == 100
Limits == {-1, 0, 1, DefaultLimit}

\* db.insert(entry)
Insert(entry) ==
    /\ Len(audit_log) < MaxInserts
    /\ InsertSteps(entry)
    /\ UNCHANGED <<pipelineLocals, engineVars, applyVars, detectVars, auxVars>>

\* n calls of logger.log_fix(result, feature_id, action) in a row, on a store
\* nothing has connected to yet
LogFixRepeated(result, feature_id, action, n) ==
    /\ opens = 0
    /\ Connect
    /\ insert_call' = Some(AuditRow("s1", result, feature_id, action))
    /\ audit_log' = [k \in 1..n |->
                        StoredRow(k, AuditRow("s1", result, feature_id, action))]
    /\ insert_count' = n
    /\ last_rowid' = n
    /\ bulk_rows' = n
    /\ UNCHANGED <<query_call, query_result, count_call, count_result, summary>>
    /\ UNCHANGED <<pipelineLocals, engineVars, applyVars, detectVars, auxVars>>

\* db.query(feature_id, session_id, error_type, limit)
Query(feature_id, session_id, error_type, limit) ==
    /\ Connect
    /\ query_call' = Some([feature_id |-> feature_id, session_id |-> session_id,
                           error_type |-> error_type, limit |-> limit])
    /\ audit_log' = Connected
    /\ query_result' = DbQuery(Connected, feature_id, session_id, error_type, limit)
    /\ count_call' = None
    /\ count_result' = 0
    /\ summary' = None
    /\ UNCHANGED <<insert_call, insert_count, last_rowid, bulk_rows>>
    /\ UNCHANGED <<pipelineLocals, engineVars, applyVars, detectVars, auxVars>>

\* db.count(session_id)
Count(session_id) ==
    /\ Connect
    /\ count_call' = Some(session_id)
    /\ audit_log' = Connected
    /\ count_result' = DbCount(Connected, session_id)
    /\ query_call' = None
    /\ query_result' = <<>>
    /\ summary' = None
    /\ UNCHANGED <<insert_call, insert_count, last_rowid, bulk_rows>>
    /\ UNCHANGED <<pipelineLocals, engineVars, applyVars, detectVars, auxVars>>

\* logger.get_session_summary(), of the logger whose session id is "s1"
GetSessionSummary ==
    /\ Connect
    /\ audit_log' = Connected
    /\ summary' = Some(get_session_summary(Connected, "s1"))
    /\ query_call' = None
    /\ query_result' = <<>>
    /\ count_call' = None
    /\ count_result' = 0
    /\ UNCHANGED <<insert_call, insert_count, last_rowid, bulk_rows>>
    /\ UNCHANGED <<pipelineLocals, engineVars, applyVars, detectVars, auxVars>>

\* db.close(); the next operation on the path reopens it
Close ==
    /\ db_open
    /\ opens < MaxOpens
    /\ db_open' = FALSE
    /\ UNCHANGED <<opens, insert_call, insert_count, last_rowid, bulk_rows,
                   query_call, query_result, count_call, count_result, summary>>
    /\ UNCHANGED <<pipelineVars, engineVars, applyVars, detectVars, auxVars>>

StoreNext ==
    \/ \E e \in Entries : Insert(e)
    \/ \E r \in LoggedResults, a \in LoggedActions : LogFix(r, "a", a)
    \/ \E f \in FilterArgs({"a"}), sid \in FilterArgs({"s1"}),
          t \in {None, Some("building_overlap")}, limit \in Limits :
           Query(f, sid, t, limit)
    \/ \E sid \in FilterArgs({"s1", "s2"}) : Count(sid)
    \/ GetSessionSummary
    \/ Close

StoreSpec == Init /\ [][StoreNext]_vars

\* The logger's session over a long run.
SummaryNext ==
    \/ \E e \in Entries : Insert(e)
    \/ \E r \in LoggedResults, a \in LoggedActions : LogFix(r, "a", a)
    \/ \E r \in LoggedResults, a \in LoggedActions,
          n \in {SummaryLimit, SummaryLimit + 1} : LogFixRepeated(r, "a", a, n)
    \/ GetSessionSummary

SummarySpec == Init /\ [][SummaryNext]_vars

----------------------------------------------------------------------------
(* Properties of DecisionEngine.decide and RuleSet.evaluate                *)

Decided == pc = "decided"
Returned == Decided /\ raised = "" /\ ret # None
RulesOnly == The(call).rules_only
RuleConfident == strategy # None /\ The(strategy).confidence >= auto_fix_min
OracleConfident == llm_strategy # None /\ The(llm_strategy).confidence >= llm_fix_min
Suffix == " -- confidence too low for auto-fix."

\* C1: decide returns a FixStrategy and never raises, whatever the rules and the
\* oracle do (return a strategy, return nothing, raise, or return a
\* recommendation with missing or wrongly typed fields).
C1_DecideNeverRaises == Decided => (raised = "" /\ ret # None)

\* C2: decide returns a rule-tier strategy exactly when the rule set produced a
\* strategy with confidence >= auto_fix_min; it is then that strategy,
\* unchanged, and every rule-tier strategy returned has confidence >= auto_fix_min.
C2_RuleTierIffConfidentRule ==
    Decided =>
        /\ (ret # None /\ The(ret).tier = RULE_BASED) <=> RuleConfident
        /\ RuleConfident => (raised = "" /\ ret = strategy)
        /\ (ret # None /\ The(ret).tier = RULE_BASED) => The(ret).confidence >= auto_fix_min

\* A rule-tier strategy was returned with a confidence exactly at the threshold.
C2_Witness ==
    /\ Returned
    /\ The(ret).tier = RULE_BASED
    /\ The(ret).confidence = auto_fix_min
    /\ ret = strategy

\* The rule of the rule set with a given name, and what its function does on
\* the error and metadata of the call.
RuleNamed(n) == CHOOSE i \in 1..Len(rules) : rules[i].name = n
OutcomeOf(n) == CallRule(rules[RuleNamed(n)].func, The(call).error, The(call).metadata)
NoMatch(n) == OutcomeOf(n).raised \/ OutcomeOf(n).value = None

\* C3: evaluate calls the rules in ascending priority whatever the order they
\* were added in, returns the strategy of the first rule that returns one,
\* treats a rule that raises as no match and goes on, and returns nothing when
\* no rule matches (also for an empty rule set).
C3_EvaluateInPriorityOrder ==
    Decided =>
        /\ \A i, j \in 1..Len(called) :
               i < j => /\ called[i] # called[j]
                        /\ rules[RuleNamed(called[i])].priority
                               <= rules[RuleNamed(called[j])].priority
        /\ \A i \in 1..Len(called) : \A k \in 1..Len(rules) :
               rules[k].priority < rules[RuleNamed(called[i])].priority
                   => \E j \in 1..(i - 1) : called[j] = rules[k].name
        /\ strategy # None =>
               /\ called # <<>>
               /\ ~OutcomeOf(called[Len(called)]).raised
               /\ OutcomeOf(called[Len(called)]).value = strategy
               /\ \A i \in 1..(Len(called) - 1) : NoMatch(called[i])
        /\ strategy = None =>
               /\ Len(called) = Len(rules)
               /\ \A i \in 1..Len(called) : NoMatch(called[i])

\* The rule added second has the lower priority number and raises; it was called
\* first, and the rule added first then produced the strategy.
C3_Witness ==
    /\ Decided
    /\ Len(rules) >= 2
    /\ called = <<"r2", "r1">>
    /\ rules[RuleNamed("r2")].priority < rules[RuleNamed("r1")].priority
    /\ OutcomeOf("r2").raised
    /\ strategy # None

\* C4: with rules_only the oracle is never consulted and the returned tier is
\* rule or human.
C4_RulesOnlySkipsOracle ==
    (Decided /\ RulesOnly) =>
        /\ llm_calls = 0
        /\ llm_outcome = "skipped"
        /\ raised = ""
        /\ ret # None
        /\ The(ret).tier \in {RULE_BASED, HUMAN_REVIEW}

\* rules_only with a rule attempt too weak for Tier 1: the oracle would have
\* been asked otherwise.
C4_Witness ==
    /\ Decided
    /\ RulesOnly
    /\ strategy # None
    /\ ~RuleConfident
    /\ ret # None
    /\ The(ret).tier = HUMAN_REVIEW

\* The confidence member of a bare JSON-object response, when it is a number.
BareObject ==
    /\ llm_input # None
    /\ The(llm_input).client = "ok"
    /\ The(llm_input).invoke = "responds"
    /\ Len(The(llm_input).content) = 1
    /\ The(llm_input).content[1].k = "doc"
    /\ The(The(llm_input).content[1].doc).form = "object"
BareMembers == The(The(llm_input).content[1].doc).members
NumericConfidence == BareObject /\ HasKey(BareMembers, "confidence")
                         /\ DictGet(BareMembers, "confidence", PyNull).t = "num"

\* C5: when no rule strategy reached auto_fix_min and rules_only is false,
\* decide returns an oracle-tier strategy iff the oracle returned a
\* recommendation with confidence >= llm_fix_min.
C5_OracleTierIffConfident ==
    (Decided /\ ~RulesOnly /\ ~RuleConfident) =>
        /\ llm_calls = 1
        /\ (ret # None /\ The(ret).tier = LLM_REASONING) <=> OracleConfident
        /\ OracleConfident => ret = llm_strategy
        /\ NumericConfidence =>
               ((ret # None /\ The(ret).tier = LLM_REASONING)
                    <=> DictGet(BareMembers, "confidence", PyNull).n >= llm_fix_min)

\* An oracle recommendation exactly at llm_fix_min was emitted with tier oracle.
C5_Witness ==
    /\ Returned
    /\ ~RulesOnly
    /\ The(ret).tier = LLM_REASONING
    /\ The(ret).confidence = llm_fix_min
    /\ strategy # None

\* The oracle call failed: no client could be made, the call raised, or the
\* response holds no JSON object with a usable confidence.
ResponseDocs == {The(The(llm_input).content[i].doc) :
                     i \in {j \in 1..Len(The(llm_input).content) :
                                The(llm_input).content[j].k = "doc"}}
Fenced == \E i \in 1..Len(The(llm_input).content) : The(llm_input).content[i].k = "fence"
OracleFailed ==
    /\ llm_input # None
    /\ \/ The(llm_input).client = "missing"
       \/ The(llm_input).invoke = "raises"
       \/ ResponseDocs = {}
       \/ ~Fenced /\ Len(The(llm_input).content) > 1
       \/ \E d \in ResponseDocs :
              \/ d.form # "object"
              \/ DictGet(d.members, "confidence", PyNum(50)) \in {PyStr("high"), PyNull}

\* What decide returns when the oracle gives nothing: human review built from
\* the rule attempt alone.
HumanReviewFromRules ==
    IF strategy = None
    THEN FixStrategy(The(call).error, PyStr("human_review"), HUMAN_REVIEW, 0,
                     Params({}), PyStr("No rule or LLM recommendation available."))
    ELSE FixStrategy(The(call).error, PyStr("human_review"), HUMAN_REVIEW,
                     The(strategy).confidence, Params({}),
                     PyStr(The(strategy).reasoning.s \o Suffix))

\* C6: when the oracle call raises, or its response cannot be parsed, decide
\* does not raise and returns the human_review strategy built from the rule
\* attempt, exactly as if the oracle had returned nothing.
C6_OracleFailureFallsBack ==
    (Decided /\ llm_calls = 1 /\ OracleFailed) =>
        /\ raised = ""
        /\ llm_strategy = None
        /\ ret = Some(HumanReviewFromRules)

\* The oracle call raised out of reason while a weak rule attempt existed; the
\* result still carries the rule attempt's confidence.
C6_Witness ==
    /\ Returned
    /\ llm_outcome = "raised"
    /\ OracleFailed
    /\ strategy # None
    /\ The(ret).tier = HUMAN_REVIEW
    /\ The(ret).confidence = The(strategy).confidence

FixKinds == {"make_valid", "simplify", "delete", "trim", "merge", "snap", "clip",
             "nudge", "flag", "human_review"}

\* C7: the fix kind of every strategy decide returns is one of make_valid,
\* simplify, delete, trim, merge, snap, clip, nudge, flag, human_review; an
\* unknown fix kind named by the oracle is never emitted.
C7_FixKindClosed ==
    Returned => (The(ret).fix_type.t = "str" /\ The(ret).fix_type.s \in FixKinds)

\* C8: every strategy decide returns has a confidence within [0, 1].
C8_ConfidenceInUnitInterval ==
    Returned => (The(ret).confidence >= 0 /\ The(ret).confidence <= 100)

\* The attempts made by the two tiers, and the highest confidence among them.
Attempts == {The(a) : a \in {strategy, llm_strategy} \ {None}}
BestConfidence ==
    IF Attempts = {} THEN 0
    ELSE CHOOSE c \in {a.confidence : a \in Attempts} :
             \A a \in Attempts : a.confidence <= c

\* C9: when neither tier succeeded, decide returns fix kind human_review at
\* tier human with the confidence of the best prior attempt (0 when there was
\* none) and that attempt's rationale followed by a low-confidence suffix.
\* Stated for attempts whose rationale is a string.
C9_HumanReviewKeepsBestAttempt ==
    (/\ Decided
     /\ ~RuleConfident
     /\ (RulesOnly \/ ~OracleConfident)
     /\ \A a \in Attempts : a.reasoning.t = "str") =>
        /\ raised = ""
        /\ ret # None
        /\ The(ret).fix_type = PyStr("human_review")
        /\ The(ret).tier = HUMAN_REVIEW
        /\ The(ret).confidence = BestConfidence
        /\ Attempts # {} =>
               \E a \in Attempts :
                   /\ a.confidence = BestConfidence
                   /\ The(ret).reasoning = PyStr(a.reasoning.s \o Suffix)

----------------------------------------------------------------------------
(* Properties of fix_all_auto                                              *)

RowsWritten == Len(audit_log) - rows_at_start

\* C10: audit completeness: after fix_all_auto has run over the detected
\* errors, the number of audit rows written during the run equals the number
\* of errors decided, one row per error whatever became of its fix.
C10_AuditCompleteness ==
    ppc = "done" =>
        /\ RowsWritten = idx
        /\ \A i \in 1..idx :
               \E k \in (rows_at_start + 1)..Len(audit_log) :
                   audit_log[k].error_id = errors[i].error_id

\* The fix of the i-th error was applied and failed: execute raised, or the
\* result did not pass validation.
FixFailed(i) == fix_results[i] # None /\ ~The(fix_results[i]).success

\* The i-th error keeps its original geometry: no fixed geometry is recorded
\* for it and, when the layer was saved, its row carries the original geometry.
KeepsOriginalGeometry(i) ==
    /\ ~HasKey(fixed_results, errors[i].error_id)
    /\ (fixed_layer # None /\ ~errors[i].geometry.is_empty) =>
           \E k \in 1..Len(The(fixed_layer)) :
               /\ The(fixed_layer)[k].error_id = errors[i].error_id
               /\ The(fixed_layer)[k].geometry = Some(errors[i].geometry)
               /\ The(fixed_layer)[k].fixed_status = "unfixed"

\* C11: rollback safety: when execute raises or the fix fails validation, the
\* fix is marked unsuccessful, the feature keeps its original geometry in the
\* resulting feature set, and an audit entry with action rolled_back is
\* written for that error.
C11_RollbackSafety ==
    ppc = "done" =>
        \A i \in 1..Len(fix_results) :
            FixFailed(i) =>
                /\ ~The(fix_results[i]).success
                /\ The(fix_results[i]).fixed_geometry = None
                /\ KeepsOriginalGeometry(i)
                /\ \E k \in (rows_at_start + 1)..Len(audit_log) :
                       /\ audit_log[k].error_id = errors[i].error_id
                       /\ audit_log[k].action = "rolled_back"

----------------------------------------------------------------------------
(* Properties of FixOperation.apply                                        *)

Applied == fix_outcome # None
AppliedOp == The(fix_op)
AppliedTo == The(fix_call).strategy
AppliedLib == The(fix_call).lib
ApplyResult == The(The(fix_outcome).result)
\* what execute did in the apply call
Executed == execute(AppliedOp, AppliedTo.error.geometry, AppliedTo.parameters, AppliedLib)

\* C12: every FixResult of apply: success implies the validation verdict is
\* pass; a result of delete has no post-fix geometry; a result with success
\* false carries no post-fix geometry.
C12_FixResultInvariant ==
    (Applied /\ The(fix_outcome).exc = "") =>
        /\ ApplyResult.success => ApplyResult.validation_passed
        /\ AppliedOp = "delete" => ApplyResult.fixed_geometry = None
        /\ ~ApplyResult.success => ApplyResult.fixed_geometry = None

\* A geometry came back from execute and failed validation: the result is
\* unsuccessful and the geometry was dropped.
C12_Witness ==
    /\ Applied
    /\ ~Executed.raised
    /\ Executed.geom # None
    /\ ~ValidateRaises(AppliedOp, Executed)
    /\ ~ApplyResult.success
    /\ ApplyResult.fixed_geometry = None

\* C13: an exception raised inside execute or inside validate does not leave
\* apply: apply returns a FixResult with success false, validation verdict
\* fail, no post-fix geometry and the error's geometry as the original.
C13_ApplyCatchesExceptions ==
    Applied =>
        /\ The(fix_outcome).exc = ""
        /\ The(fix_outcome).result # None
        /\ (Executed.raised \/ ValidateRaises(AppliedOp, Executed)) =>
               /\ ~ApplyResult.success
               /\ ~ApplyResult.validation_passed
               /\ ApplyResult.fixed_geometry = None
               /\ ApplyResult.original_geometry = AppliedTo.error.geometry
               /\ ApplyResult.strategy = AppliedTo

\* validate raised on the geometry execute returned, and apply returned a
\* failed result.
C13_Witness ==
    /\ Applied
    /\ ValidateRaises(AppliedOp, Executed)
    /\ The(fix_outcome).exc = ""
    /\ ~ApplyResult.success

\* C14: validation monotonicity: for every operation of the default registry
\* other than delete, a result with success true carries a post-fix geometry
\* that is non-nil, non-empty and valid.
C14_SuccessMeansValidGeometry ==
    (Applied /\ The(fix_outcome).exc = "" /\ AppliedOp # "delete" /\ ApplyResult.success) =>
        /\ ApplyResult.fixed_geometry # None
        /\ ~The(ApplyResult.fixed_geometry).is_empty
        /\ The(ApplyResult.fixed_geometry).is_valid

\* the post/pre area ratio lies within [lo, hi] hundredths
RatioAtLeast(lo) ==
    The(ApplyResult.fixed_geometry).area * 100 >= lo * ApplyResult.original_geometry.area
RatioAtMost(hi) ==
    The(ApplyResult.fixed_geometry).area * 100 <= hi * ApplyResult.original_geometry.area

\* C15: area bounds: a successful trim, snap, clip, simplify or nudge on an
\* input of positive area has a post/pre area ratio within the fix's bounds:
\* trim >= 0.3, snap in [0.5, 1.5], clip >= 0.1, simplify >= 0.5, nudge within
\* 0.01 of 1.
C15_AreaBounds ==
    (/\ Applied
     /\ The(fix_outcome).exc = ""
     /\ ApplyResult.success
     /\ ApplyResult.original_geometry.area > 0) =>
        /\ AppliedOp = "trim" => RatioAtLeast(30)
        /\ AppliedOp = "snap" => RatioAtLeast(50) /\ RatioAtMost(150)
        /\ AppliedOp = "clip" => RatioAtLeast(10)
        /\ AppliedOp = "simplify" => RatioAtLeast(50)
        /\ AppliedOp = "nudge" => RatioAtLeast(99) /\ RatioAtMost(101)

\* A trim that kept exactly 0.3 of the area succeeded.
C15_Witness ==
    /\ Applied
    /\ AppliedOp = "trim"
    /\ ApplyResult.success
    /\ ApplyResult.original_geometry.area = 10000
    /\ The(ApplyResult.fixed_geometry).area = 3000

----------------------------------------------------------------------------
(* Properties of the audit store                                           *)

\* every row the table held is still there, unchanged and at its place
RowsKept ==
    /\ Len(audit_log') >= Len(audit_log)
    /\ \A k \in 1..Len(audit_log) : audit_log'[k] = audit_log[k]

\* the step added one row: the entry of the insert call, under the id it returned,
\* which is larger than the id the insert before it returned
OneRowInserted ==
    /\ Len(audit_log') = Len(audit_log) + 1
    /\ insert_count' = insert_count + 1
    /\ insert_call' # None
    /\ EntryOf(audit_log'[Len(audit_log')]) = The(insert_call')
    /\ audit_log'[Len(audit_log')].id = last_rowid'
    /\ last_rowid' > last_rowid

NothingInserted ==
    /\ Len(audit_log') = Len(audit_log)
    /\ insert_count' = insert_count
    /\ last_rowid' = last_rowid

AppendOnlyStep == RowsKept /\ (OneRowInserted \/ NothingInserted)

CountIsInserts ==
    /\ Len(audit_log) = insert_count
    /\ count_call = Some(None) => count_result = insert_count

\* C16: The audit store is append-only and durable. Over any sequence of
\* insert, query, count, close and reopen on one store path, every step keeps
\* the rows the table holds and adds at most one: the entry of the insert call,
\* with the field values it was inserted with, under a row id larger than the
\* one returned before. The table has as many rows as inserts returned, and
\* count() returns that number; no operation updates or deletes a row.
C16_AppendOnlyDurable == []CountIsInserts /\ [][AppendOnlyStep]_vars

\* count() after two inserts, a close and a reopen
C16_Witness ==
    /\ opens = 2
    /\ insert_count = 2
    /\ count_call = Some(None)
    /\ count_result = 2
    /\ audit_log[2].id = 2

\* a filter that was supplied: an argument that is not None
Supplied(arg) == arg # None

\* the row matches every filter the query call supplied
MatchesCall(row, c) ==
    /\ Supplied(c.feature_id) => row.feature_id = The(c.feature_id)
    /\ Supplied(c.session_id) => row.session_id = The(c.session_id)
    /\ Supplied(c.error_type) => row.error_type = The(c.error_type)

MatchingRows(c) == {k \in 1..Len(audit_log) : MatchesCall(audit_log[k], c)}

\* the rows returned are the newest matching rows, newest first, at most limit
QueryAnswers(c) ==
    /\ Len(query_result) <= c.limit
    /\ Len(query_result) = Min2(c.limit, Cardinality(MatchingRows(c)))
    /\ \A i \in 1..Len(query_result) :
           /\ query_result[i].id \in MatchingRows(c)
           /\ query_result[i] = audit_log[query_result[i].id]
           /\ \A k \in MatchingRows(c) :
                  k > query_result[i].id => \E j \in 1..(i - 1) : query_result[j].id = k
    /\ \A i, j \in 1..Len(query_result) :
           i < j => query_result[i].id > query_result[j].id

RowsOfSession(sid) == {k \in 1..Len(audit_log) : audit_log[k].session_id = sid}

CountAnswers(arg) ==
    count_result = IF Supplied(arg) THEN Cardinality(RowsOfSession(The(arg)))
                   ELSE Len(audit_log)

\* C17: query returns exactly the rows that match every filter supplied among
\* feature_id, session_id and error kind (all rows when none is supplied),
\* newest first by row id, truncated to at most limit rows; count(session_id)
\* returns the number of rows carrying that session id, for every session id
\* a row can carry, and the number of all rows when no session id is given.
C17_QueryAndCount ==
    /\ query_call # None => QueryAnswers(The(query_call))
    /\ count_call # None => CountAnswers(The(count_call))

----------------------------------------------------------------------------
(* Properties of AuditLogger.get_session_summary                           *)

RowsOfSessionWith(sid, action) == {k \in RowsOfSession(sid) : audit_log[k].action = action}

\* C18: get_session_summary aggregates over the current session: its total is
\* the number of rows logged under the logger's session id, however many there
\* are, rows of other sessions are not counted, and the applied, rolled_back,
\* skipped and pending_review counts are the numbers of those rows with that
\* action and sum to the total.
C18_SessionSummary ==
    summary # None =>
        /\ The(summary).total_actions = Cardinality(RowsOfSession("s1"))
        /\ The(summary).applied = Cardinality(RowsOfSessionWith("s1", "applied"))
        /\ The(summary).rolled_back = Cardinality(RowsOfSessionWith("s1", "rolled_back"))
        /\ The(summary).skipped = Cardinality(RowsOfSessionWith("s1", "skipped"))
        /\ The(summary).pending_review = Cardinality(RowsOfSessionWith("s1", "pending_review"))
        /\ The(summary).total_actions =
               The(summary).applied + The(summary).rolled_back
               + The(summary).skipped + The(summary).pending_review

----------------------------------------------------------------------------
(* integration/ovc_bridge.py: OVCBridge._convert_layer                     *)

MaxLayerRows == 2

\* str(value)
PyToStr(v) ==
    IF v.t = "str" THEN v.s
    ELSE IF v.t = "num" THEN ToString(v.n)
    ELSE "None"

\* A row of an error layer: its columns (a dict) and its geometry.
LayerRow(cols, geometry) == [cols |-> cols, geometry |-> geometry]

HasColumn(row, col) == \E c \in row.cols : c[1] = col
Column(row, col) == (CHOOSE c \in row.cols : c[1] = col)[2]

\* row.get("error_type", layer_name)
RowErrorType(row, layer_name) ==
    IF HasColumn(row, "error_type") THEN Column(row, "error_type") ELSE PyStr(layer_name)

IdColumns == <<"bldg_id", "bldg_a", "bldg_b", "osmid">>

\* `if col in row.index and row[col] is not None`
HasId(row, col) == HasColumn(row, col) /\ Column(row, col) # PyNull

\* the affected feature ids, in the order of the id columns
RECURSIVE AffectedFrom(_, _)
AffectedFrom(row, k) ==
    IF k > Len(IdColumns) THEN <<>>
    ELSE IF HasId(row, IdColumns[k])
         THEN <<PyToStr(Column(row, IdColumns[k]))>> \o AffectedFrom(row, k + 1)
         ELSE AffectedFrom(row, k + 1)

\* the properties: every other column that is not None
RowProps(row) ==
    {c \in row.cols : c[1] \notin {"bldg_id", "bldg_a", "bldg_b", "osmid"} /\ c[2] # PyNull}

\* the DetectedError of one row, under the id uuid4 returned
ConvertRow(row, layer_name, uuid) ==
    DetectedError(uuid, PyToStr(RowErrorType(row, layer_name)), row.geometry,
                  AffectedFrom(row, 1), RowProps(row))

\* _convert_layer(gdf, layer_name), with drawn[k] the uuid4 of the k-th row
_convert_layer(rows, layer_name, drawn) ==
    [k \in 1..Len(rows) |-> ConvertRow(rows[k], layer_name, drawn[k])]

R_overlap == LayerRow({<<"error_type", PyStr("building_overlap")>>,
                       <<"bldg_a", PyStr("a")>>, <<"bldg_b", PyStr("b")>>,
                       <<"overlap_ratio", PyNum(50)>>}, G_square)
R_road == LayerRow({<<"error_type", PyStr("building_on_road")>>,
                    <<"bldg_id", PyNum(7)>>, <<"osmid", PyNull>>,
                    <<"note", PyNull>>}, G_square)
R_untyped == LayerRow({<<"bldg_id", PyStr("a")>>}, G_bowtie)
LayerRows == {R_overlap, R_road, R_untyped}

RECURSIVE RowLists(_)
RowLists(n) ==
    IF n = 0 THEN {<<>>}
    ELSE LET shorter == RowLists(n - 1)
         IN  shorter \cup {Append(l, r) : l \in {m \in shorter : Len(m) = n - 1},
                                             r \in LayerRows}

LayerNames == {"errors", "overlaps"}

\* uuid4 never returns a value twice; two runs of a full layer draw this many
Uuid4 == {ToString(n) : n \in 1..(2 * MaxLayerRows)}

\* the ways uuid4 can answer n calls in a row
Draws(n) == {d \in [1..n -> Uuid4 \ uuids] : \A i, j \in 1..n : i # j => d[i] # d[j]}

\* OVC wrote an error layer (a layer that is empty is skipped)
ReadLayer(name, rows) ==
    /\ layer = None
    /\ rows # <<>>
    /\ layer' = Some([name |-> name, rows |-> rows])
    /\ UNCHANGED <<uuids, runs, gdf, overlaps>>
    /\ UNCHANGED <<engineVars, pipelineVars, applyVars, storeVars, auxVars>>

\* a detection run: _convert_layer on the layer
ConvertLayer(n) ==
    /\ layer # None
    /\ n = Len(The(layer).rows)
    /\ Len(runs) < 2
    /\ \E drawn \in Draws(n) :
           /\ runs' = Append(runs, _convert_layer(The(layer).rows, The(layer).name, drawn))
           /\ uuids' = uuids \cup {drawn[k] : k \in 1..n}
    /\ UNCHANGED <<layer, gdf, overlaps>>
    /\ UNCHANGED <<engineVars, pipelineVars, applyVars, storeVars, auxVars>>

DetectNext ==
    \/ \E name \in LayerNames, rows \in RowLists(MaxLayerRows) : ReadLayer(name, rows)
    \/ \E n \in 1..MaxLayerRows : ConvertLayer(n)

DetectSpec == Init /\ [][DetectNext]_vars

----------------------------------------------------------------------------
(* Properties of the detection runs                                        *)

\* C19: Determinism. For identical inputs, two detection runs produce
\* identical DetectedError lists in the same order, including the error ids,
\* so that decisions and audit rows, which carry the error id, are identical
\* too.
C19_Determinism == Len(runs) = 2 => runs[1] = runs[2]

----------------------------------------------------------------------------
(* api.py: _detect_overlaps                                                *)

MaxFeatures == 3

\* A polygon made of unit cells of a grid; <<x, y>> is the cell [x, x+1] x [y, y+1].
\* A feature's geometry is None or Some(polygon); the polygon without cells is empty.
Polygon(cells) == [cells |-> cells]

IsEmpty(geom) == geom.cells = {}

\* `geom is None or geom.is_empty`
NoGeometry(o) == o = None \/ IsEmpty(The(o))

\* geom.bounds
MinOf(S) == CHOOSE x \in S : \A y \in S : x <= y
MaxOf(S) == CHOOSE x \in S : \A y \in S : x >= y
Bounds(geom) ==
    [minx |-> MinOf({c[1] : c \in geom.cells}), maxx |-> MaxOf({c[1] : c \in geom.cells}) + 1,
     miny |-> MinOf({c[2] : c \in geom.cells}), maxy |-> MaxOf({c[2] : c \in geom.cells}) + 1]

BoundsIntersect(a, b) ==
    /\ a.minx <= b.maxx /\ b.minx <= a.maxx
    /\ a.miny <= b.maxy /\ b.miny <= a.maxy

\* two closed cells share at least a point
CellsTouch(c, d) == Abs(c[1] - d[1]) <= 1 /\ Abs(c[2] - d[2]) <= 1

\* geom_a.intersects(geom_b)
Intersects(a, b) == \E c \in a.cells, d \in b.cells : CellsTouch(c, d)

\* geom_a.intersection(geom_b).area
IntersectionArea(a, b) == Cardinality(a.cells \cap b.cells)

\* The feature at position i (positions count from 0).
GeometryAt(features, i) == features[i + 1]

\* sindex.intersection(geom_a.bounds): the positions of the features with a
\* geometry whose bounds meet the bounds given
CandidateSet(features, bounds) ==
    {j \in 0..(Len(features) - 1) :
        /\ ~NoGeometry(GeometryAt(features, j))
        /\ BoundsIntersect(Bounds(The(GeometryAt(features, j))), bounds)}

\* the order the index returns them in: not specified, here ascending or descending
RECURSIVE Ordered(_, _)
Ordered(S, descending) ==
    IF S = {} THEN <<>>
    ELSE LET first == IF descending THEN MaxOf(S) ELSE MinOf(S)
         IN  <<first>> \o Ordered(S \ {first}, descending)

\* `if j <= i: continue`
SkipsCandidate_self_only(i, j) == j = i

SkipsCandidate(i, j) == j <= i

\* the pair (i, j) is appended
ReportsPair(features, i, j) ==
    /\ ~SkipsCandidate(i, j)
    /\ ~NoGeometry(GeometryAt(features, j))
    /\ Intersects(The(GeometryAt(features, i)), The(GeometryAt(features, j)))
    /\ IntersectionArea(The(GeometryAt(features, i)), The(GeometryAt(features, j))) > 0

Overlap(features, i, j) ==
    [feature_a |-> i, feature_b |-> j,
     overlap_area |-> IntersectionArea(The(GeometryAt(features, i)),
                                       The(GeometryAt(features, j)))]

\* the inner loop, over the candidates from position k of the list on
RECURSIVE CandidateLoop(_, _, _, _)
CandidateLoop(features, i, candidates, k) ==
    IF k > Len(candidates) THEN <<>>
    ELSE (IF ReportsPair(features, i, candidates[k])
          THEN <<Overlap(features, i, candidates[k])>> ELSE <<>>)
         \o CandidateLoop(features, i, candidates, k + 1)

\* the outer loop, from feature i on
RECURSIVE FeatureLoop(_, _, _)
FeatureLoop(features, i, descending) ==
    IF i >= Len(features) THEN <<>>
    ELSE (IF NoGeometry(GeometryAt(features, i)) THEN <<>>
          ELSE CandidateLoop(features, i,
                   Ordered(CandidateSet(features, Bounds(The(GeometryAt(features, i)))),
                           descending), 1))
         \o FeatureLoop(features, i + 1, descending)

_detect_overlaps(features, descending) ==
    IF Len(features) < 2 THEN <<>> ELSE FeatureLoop(features, 0, descending)

P_left == Polygon({<<0, 0>>, <<1, 0>>})
P_right == Polygon({<<1, 0>>, <<2, 0>>})
P_corner == Polygon({<<0, 0>>, <<0, 1>>, <<0, 2>>, <<1, 2>>, <<2, 2>>})
P_cell == Polygon({<<2, 0>>})
P_empty == Polygon({})
FeatureGeometries == {None, Some(P_empty), Some(P_left), Some(P_right),
                      Some(P_corner), Some(P_cell)}

RECURSIVE FeatureLists(_)
FeatureLists(n) ==
    IF n = 0 THEN {<<>>}
    ELSE LET shorter == FeatureLists(n - 1)
         IN  shorter \cup {Append(l, f) : l \in {m \in shorter : Len(m) = n - 1},
                                             f \in FeatureGeometries}

\* gdf = _read_file(file_path)
ReadFile(features) ==
    /\ gdf = None
    /\ gdf' = Some(features)
    /\ UNCHANGED <<layer, uuids, runs, overlaps>>
    /\ UNCHANGED <<engineVars, pipelineVars, applyVars, storeVars, auxVars>>

\* overlaps = _detect_overlaps(gdf)
DetectOverlaps(descending) ==
    /\ gdf # None
    /\ overlaps = None
    /\ overlaps' = Some(_detect_overlaps(The(gdf), descending))
    /\ UNCHANGED <<layer, uuids, runs, gdf>>
    /\ UNCHANGED <<engineVars, pipelineVars, applyVars, storeVars, auxVars>>

OverlapNext ==
    \/ \E features \in FeatureLists(MaxFeatures) : ReadFile(features)
    \/ \E descending \in BOOLEAN : DetectOverlaps(descending)

OverlapSpec == Init /\ [][OverlapNext]_vars

----------------------------------------------------------------------------
(* Properties of _detect_overlaps                                          *)

Positions == 0..(Len(The(gdf)) - 1)

\* two distinct features with geometry whose intersection has an area
OverlappingPair(i, j) ==
    /\ i # j
    /\ ~NoGeometry(GeometryAt(The(gdf), i))
    /\ ~NoGeometry(GeometryAt(The(gdf), j))
    /\ IntersectionArea(The(GeometryAt(The(gdf), i)), The(GeometryAt(The(gdf), j))) > 0

\* the entries of the result that report features i and j, in either order
ReportsOf(i, j) ==
    {k \in 1..Len(The(overlaps)) :
        {The(overlaps)[k].feature_a, The(overlaps)[k].feature_b} = {i, j}}

----------------------------------------------------------------------------
(* decision/rules.py, decision/engine.py: decisions of the default rule set *)

\* Two features of one source; the one of lower confidence comes first, or second.
Meta(fid, source, confidence) ==
    [feature_id |-> fid, source |-> source, accuracy_m |-> 1000, confidence |-> confidence]
M_low_first == {<<"a", Meta("a", "osm", 50)>>, <<"b", Meta("b", "osm", 90)>>}
M_low_second == {<<"a", Meta("a", "osm", 90)>>, <<"b", Meta("b", "osm", 50)>>}
DefaultMetas == {{}, M_ab, M_low_first, M_low_second}

E_dup_ratio == DetectedError("d1", "duplicate_geometry", G_square, <<"a", "b">>,
                   {<<"overlap_ratio", PyNum(100)>>})
E_near_dup == DetectedError("d2", "building_overlap", G_square, <<"a", "b">>,
                  {<<"overlap_ratio", PyNum(98)>>})
E_partial == DetectedError("d3", "building_overlap", G_square, <<"a", "b">>,
                 {<<"overlap_ratio", PyNum(97)>>})
DuplicateErrors == {E_dup, E_dup_ratio, E_near_dup, E_partial}

\* Sliver overlaps of 0.5 m2, the class recorded under three property names.
Sliver(id, key) ==
    DetectedError(id, "building_overlap", G_square, <<"a", "b">>,
        {<<key, PyStr("sliver")>>, <<"inter_area_m2", PyNum(50)>>})
SliverErrors == {Sliver("s1", "overlap_class"), Sliver("s2", "overlap_type"),
                 Sliver("s3", "error_class")}

\* Errors on one building, with a measure on either side of the rule's limit,
\* missing, or not a number.
Single(id, type, props) == DetectedError(id, type, G_square, <<"a">>, props)
SingleErrors ==
    {Single("u1", "unreasonable_area", {<<"area_m2", PyNum(50)>>}),
     Single("u2", "unreasonable_area", {<<"area_m2", PyNum(100)>>}),
     Single("u3", "unreasonable_area", {}),
     Single("u4", "unreasonable_area", {<<"area_m2", PyNull>>}),
     Single("c1", "low_compactness", {<<"compactness", PyNum(4)>>}),
     Single("c2", "low_compactness", {<<"compactness", PyNum(5)>>}),
     Single("c3", "low_compactness", {}),
     Single("r1", "building_on_road", {}),
     Single("r2", "building_on_road", {<<"inter_area_m2", PyNum(200)>>}),
     Single("r3", "building_on_road", {<<"inter_area_m2", PyNum(199)>>})}

DefaultErrors == DuplicateErrors \cup SliverErrors \cup SingleErrors

DefaultOracles ==
    {OracleBehaviour("missing", "raises", <<>>),
     OracleBehaviour("ok", "responds",
         <<DocTok(Recommendation(PyStr("snap"), PyNum(60), PyStr("LLM says so")))>>)}

DefaultRulesNext ==
    \/ BuildDefault
    \/ \E e \in DefaultErrors, m \in DefaultMetas, ro \in BOOLEAN, o \in DefaultOracles :
           Decide(e, m, ro, o)

DefaultRulesSpec == Init /\ [][DefaultRulesNext]_vars

----------------------------------------------------------------------------
(* Properties of the default rule set                                      *)

DecidedByDefault == Decided /\ rules = build_default_ruleset
DecidedError == The(call).error
FeatureMeta(k) == _get_meta(The(call).metadata, DecidedError.affected_features[k])

\* a duplicate between two features that share a source tag
SameSourceDuplicate ==
    /\ \/ DecidedError.error_type = "duplicate_geometry"
       \/ /\ DecidedError.error_type = "building_overlap"
          /\ IsNum(Prop(DecidedError, "overlap_ratio", PyNull))
          /\ Prop(DecidedError, "overlap_ratio", PyNull).n >= 98
    /\ Len(DecidedError.affected_features) = 2
    /\ FeatureMeta(1).source = FeatureMeta(2).source

\* the feature of lower confidence, when there is one
LowerConfidence ==
    IF FeatureMeta(1).confidence < FeatureMeta(2).confidence
    THEN DecidedError.affected_features[1] ELSE DecidedError.affected_features[2]

\* C21: For a duplicate between two features that share a source tag (a
\* duplicate_geometry error, or a building_overlap error with overlap ratio
\* >= 0.98), the default decision is delete at tier rule with confidence 0.95,
\* and the feature named for deletion is the lower-confidence one of the two,
\* whichever position it holds in the affected-feature list.
C21_DuplicateSameSource ==
    (DecidedByDefault /\ SameSourceDuplicate) =>
        /\ Returned
        /\ The(ret).fix_type = PyStr("delete")
        /\ The(ret).tier = RULE_BASED
        /\ The(ret).confidence = 95
        /\ FeatureMeta(1).confidence # FeatureMeta(2).confidence =>
               DictGet(The(ret).parameters.items, "delete_feature", PyNull)
                   = PyStr(LowerConfidence)

\* a building_overlap error of overlap class sliver with an intersection below 1 m2
SmallSliver ==
    /\ DecidedError.error_type = "building_overlap"
    /\ Prop(DecidedError, "overlap_class", PyNull) = PyStr("sliver")
    /\ IsNum(Prop(DecidedError, "inter_area_m2", PyNull))
    /\ Prop(DecidedError, "inter_area_m2", PyNull).n < 100

\* C22: A building_overlap error whose property bag records overlap class
\* sliver (property overlap_class) and an intersection area inter_area_m2 below
\* 1 m2 is decided by the default rules as trim at tier rule with confidence
\* 0.90, with or without feature metadata.
C22_SliverTrim ==
    (DecidedByDefault /\ SmallSliver) =>
        /\ Returned
        /\ The(ret).fix_type = PyStr("trim")
        /\ The(ret).tier = RULE_BASED
        /\ The(ret).confidence = 90

\* an unreasonable_area error, a low_compactness error, or a building_on_road
\* error whose inter_area_m2 is absent or >= 2
LowConfidenceKind ==
    \/ DecidedError.error_type \in {"unreasonable_area", "low_compactness"}
    \/ /\ DecidedError.error_type = "building_on_road"
       /\ \/ ~HasKey(DecidedError.properties, "inter_area_m2")
          \/ /\ IsNum(Prop(DecidedError, "inter_area_m2", PyNull))
             /\ Prop(DecidedError, "inter_area_m2", PyNull).n >= 200

\* the one rule that can match the kind, and its confidence
RuleOfKind ==
    IF DecidedError.error_type = "unreasonable_area" THEN "tiny_building"
    ELSE IF DecidedError.error_type = "low_compactness" THEN "low_compactness"
    ELSE "road_conflict_fallback"
ConfidenceOfKind == IF DecidedError.error_type = "unreasonable_area" THEN 70 ELSE 75

\* C28: With the default rule set and default thresholds, decide with
\* rules_only true never returns a rule-tier strategy for an unreasonable_area
\* error, a low_compactness error, or a building_on_road error whose
\* inter_area_m2 is absent or >= 2: the only rule that can match has confidence
\* 0.70, 0.75 and 0.75, below auto_fix_min, so the result is human_review
\* carrying that confidence (0 when no rule matches), the oracle is not asked,
\* and no rule after the one that matched is consulted.
C28_LowConfidenceRulesNeverAutoFix ==
    (DecidedByDefault /\ RulesOnly /\ LowConfidenceKind) =>
        /\ Returned
        /\ The(ret).tier = HUMAN_REVIEW
        /\ The(ret).fix_type = PyStr("human_review")
        /\ llm_calls = 0
        /\ strategy = None =>
               /\ The(ret).confidence = 0
               /\ Len(called) = Len(rules)
        /\ strategy # None =>
               /\ The(strategy).confidence = ConfidenceOfKind
               /\ ConfidenceOfKind < auto_fix_min
               /\ The(ret).confidence = ConfidenceOfKind
               /\ called[Len(called)] = RuleOfKind
               /\ \A k \in 1..Len(rules) :
                      rules[k].priority > rules[RuleNamed(RuleOfKind)].priority
                          => \A i \in 1..Len(called) : called[i] # rules[k].name

\* a road conflict without a measured area: the fallback rule matched at 0.75
\* and the result is human_review at 0.75, the later rules not consulted
C28_Witness ==
    /\ DecidedByDefault /\ RulesOnly /\ Returned
    /\ DecidedError.error_type = "building_on_road"
    /\ ~HasKey(DecidedError.properties, "inter_area_m2")
    /\ strategy # None
    /\ The(ret).tier = HUMAN_REVIEW
    /\ The(ret).confidence = 75
    /\ Len(called) < Len(rules)

----------------------------------------------------------------------------
(* chat/tools.py: one error through decide, registry.get and apply         *)

\* A geometry made of grid cells, with what the fixes read of it.
CellGeom(cells) ==
    [is_valid |-> TRUE, is_empty |-> cells = {}, area |-> 100 * Cardinality(cells),
     cells |-> cells]

GridCells == {<<0, 0>>, <<0, 1>>, <<1, 0>>, <<1, 1>>}

\* the study area boundary: the left column of the grid
StudyArea == CellGeom({<<0, 0>>, <<0, 1>>})

\* geometry.within(boundary)
Inside(geom, boundary) == geom.cells \subseteq boundary.cells

\* the buildings that extend beyond the boundary
Overhanging == {CellGeom(c) : c \in {d \in SUBSET GridCells : ~(d \subseteq StudyArea.cells)}}

BoundaryErrors ==
    {DetectedError("b1", type, g, <<"a">>, {}) :
        type \in {"building_boundary_overlap", "outside_boundary"}, g \in Overhanging}

\* geometry.intersection(boundary), if a fix calls it
Intersection(geom, boundary) == CellGeom(geom.cells \cap boundary.cells)
ClipLibResults(geom) == {LibRaises, LibReturns(Some(Intersection(geom, StudyArea)))}

\* `strategy = engine.decide(error, {}, rules_only=True)` returned a strategy
\* that is not for human review
DecidedInPipeline ==
    /\ pc = "decided"
    /\ rules = build_default_ruleset
    /\ raised = "" /\ ret # None
    /\ The(call).rules_only /\ The(call).metadata = {}
    /\ The(ret).tier # HUMAN_REVIEW

\* fix_op = registry.get(strategy.fix_type)
LookupDecided ==
    /\ DecidedInPipeline
    /\ fix_op = None
    /\ fix_op' = RegistryGet(The(ret).fix_type)
    /\ UNCHANGED <<fix_call, fix_outcome>>
    /\ UNCHANGED <<engineVars, pipelineVars, storeVars, detectVars, auxVars>>

\* result = fix_op.apply(strategy)
ApplyDecided(succeeds) ==
    /\ DecidedInPipeline
    /\ fix_op # None
    /\ fix_call = None
    /\ \E lib \in {l \in ClipLibResults(The(ret).error.geometry) : l.raised = ~succeeds} :
           /\ fix_call' = Some([strategy |-> The(ret), lib |-> lib])
           /\ fix_outcome' = Some(apply(The(fix_op), The(ret), lib))
    /\ UNCHANGED fix_op
    /\ UNCHANGED <<engineVars, pipelineVars, storeVars, detectVars, auxVars>>

ClipNext ==
    \/ BuildDefault
    \/ \E e \in BoundaryErrors : Decide(e, {}, TRUE, OracleBehaviour("missing", "raises", <<>>))
    \/ LookupDecided
    \/ \E succeeds \in BOOLEAN : ApplyDecided(succeeds)

ClipSpec == Init /\ [][ClipNext]_vars

----------------------------------------------------------------------------
(* Properties of the clip fix in the pipeline                              *)

\* C23: When a building_boundary_overlap error is decided by the default rules
\* and the resulting clip strategy is applied through the default registry as
\* the pipeline does, every result reported as successfully applied has a
\* post-fix geometry that lies entirely inside the boundary and whose area is
\* at least 10% of the pre-fix area.
C23_ClipInsideBoundary ==
    (/\ Applied
     /\ The(fix_outcome).exc = ""
     /\ AppliedTo.error.error_type = "building_boundary_overlap"
     /\ AppliedOp = "clip"
     /\ ApplyResult.success) =>
        /\ ApplyResult.fixed_geometry # None
        /\ Inside(The(ApplyResult.fixed_geometry), StudyArea)
        /\ The(ApplyResult.fixed_geometry).area * 10 >= ApplyResult.original_geometry.area

----------------------------------------------------------------------------
(* validation/validator.py                                                 *)

\* class ValidationResult
ValidationResult(passed, checks_run, failures) ==
    [passed |-> passed, checks_run |-> checks_run, failures |-> failures]

\* Validator.__init__: min_area_m2 in hundredths of m2, max_area_ratio_change
\* in hundredths
Validator(min_area_m2, max_area_ratio_change) ==
    [min_area_m2 |-> min_area_m2, max_area_ratio_change |-> max_area_ratio_change]

\* ratio = fixed.area / original.area, compared without dividing:
\* ratio > max  and  ratio < 1.0 / max  (original.area > 0)
RatioAbove(self, original, fixed) ==
    fixed.area * 100 > self.max_area_ratio_change * original.area
RatioBelow(self, original, fixed) ==
    fixed.area * self.max_area_ratio_change < original.area * 100

\* The failure messages a check appends; the numbers formatted into the two
\* ratio messages and the minimum-area message are left out.
\* Check 2: geometry validity
ValidityCheck(fixed) ==
    IF ~fixed.is_valid THEN <<"Fixed geometry is invalid">> ELSE <<>>

\* Check 3: area not zero
AreaCheck(original, fixed) ==
    IF fixed.area <= 0 /\ original.area > 0
    THEN <<"Fixed geometry has zero area">> ELSE <<>>

\* Check 4: area did not change too drastically
AreaRatioCheck(self, original, fixed) ==
    IF original.area > 0 /\ fixed.area > 0
    THEN (IF RatioAbove(self, original, fixed) THEN <<"Area increased">> ELSE <<>>)
         \o (IF RatioBelow(self, original, fixed) THEN <<"Area decreased">> ELSE <<>>)
    ELSE <<>>

\* a minimum-area check that also rejects an area equal to the minimum
MinAreaCheck_inclusive(self, fixed) ==
    IF 0 < fixed.area /\ fixed.area <= self.min_area_m2
    THEN <<"Fixed geometry area below minimum">> ELSE <<>>

\* Check 5: minimum area threshold
MinAreaCheck(self, fixed) ==
    IF 0 < fixed.area /\ fixed.area < self.min_area_m2
    THEN <<"Fixed geometry area below minimum">> ELSE <<>>

\* the part of validate_fix after the null check
ChecksAfterNull(self, original, fixed) ==
    ValidityCheck(fixed) \o AreaCheck(original, fixed)
        \o AreaRatioCheck(self, original, fixed) \o MinAreaCheck(self, fixed)

\* a validate_fix that returns as soon as the validity check has failed
validate_fix_stops_when_invalid(self, original, fixed, allow_deletion) ==
    IF fixed = None \/ The(fixed).is_empty
    THEN IF allow_deletion
         THEN ValidationResult(TRUE, <<"null_check">>, <<>>)
         ELSE ValidationResult(FALSE, <<"null_check">>,
                               <<"Fix produced null/empty geometry">>)
    ELSE IF ~The(fixed).is_valid
         THEN ValidationResult(FALSE, <<"null_check", "validity_check">>,
                               ValidityCheck(The(fixed)))
         ELSE ValidationResult(ChecksAfterNull(self, original, The(fixed)) = <<>>,
                  <<"null_check", "validity_check", "area_check", "area_ratio_check",
                    "min_area_check">>,
                  ChecksAfterNull(self, original, The(fixed)))

\* Validator.validate_fix(original, fixed, allow_deletion); fixed is Optional
validate_fix(self, original, fixed, allow_deletion) ==
    IF fixed = None \/ The(fixed).is_empty
    THEN IF allow_deletion
         THEN ValidationResult(TRUE, <<"null_check">>, <<>>)
         ELSE ValidationResult(FALSE, <<"null_check">>,
                               <<"Fix produced null/empty geometry">>)
    ELSE ValidationResult(ChecksAfterNull(self, original, The(fixed)) = <<>>,
             <<"null_check", "validity_check", "area_check", "area_ratio_check",
               "min_area_check">>,
             ChecksAfterNull(self, original, The(fixed)))

\* Validators: the default one and one with both limits changed
default_min_area_m2 == 50
default_max_area_ratio_change == 500
Validators == {Validator(default_min_area_m2, default_max_area_ratio_change),
               Validator(200, 200)}

\* originals: a 1 m2 polygon, a 100 m2 polygon, a line (no area)
ValidatedOriginals == {Geom(TRUE, FALSE, 100), G_square, G_point}
\* fixed geometries: nothing, empty, invalid, and areas on both sides of every limit
ValidatedAreas == {0, 19, 20, 49, 50, 51, 199, 200, 500, 501, 1999, 2000, 4999, 5000,
                   20000, 20001, 50000, 50001}
ValidatedFixed ==
    {None, Some(G_empty), Some(G_bowtie), Some(Geom(FALSE, FALSE, 0)),
     Some(Geom(FALSE, FALSE, 30))}
        \cup {Some(Geom(TRUE, FALSE, a)) : a \in ValidatedAreas}

\* one call of validate_fix
ValidateFix(self, original, fixed, allow_deletion) ==
    /\ val_call' = Some([self |-> self, original |-> original, fixed |-> fixed,
                         allow_deletion |-> allow_deletion])
    /\ val_result' = Some(validate_fix(self, original, fixed, allow_deletion))
    /\ UNCHANGED <<coreVars, cacheVars, batchVars, agentVars>>

ValidatorNext ==
    \E self \in Validators, original \in ValidatedOriginals, fixed \in ValidatedFixed,
       allow_deletion \in BOOLEAN :
        ValidateFix(self, original, fixed, allow_deletion)

ValidatorSpec == Init /\ [][ValidatorNext]_vars

(* properties of validate_fix *)

Validated == val_call # None
ValidatedNothing == The(val_call).fixed = None \/ The(The(val_call).fixed).is_empty
FixedGeometry == The(The(val_call).fixed)
OriginalGeometry == The(val_call).original
Passed == The(val_result).passed

Invalid == ~FixedGeometry.is_valid
LostArea == FixedGeometry.area = 0 /\ OriginalGeometry.area > 0
RatioOutOfRange ==
    /\ OriginalGeometry.area > 0
    /\ \/ RatioAbove(The(val_call).self, OriginalGeometry, FixedGeometry)
       \/ RatioBelow(The(val_call).self, OriginalGeometry, FixedGeometry)
BelowMinimum == FixedGeometry.area < The(val_call).self.min_area_m2
PositiveBelowMinimum == FixedGeometry.area > 0 /\ BelowMinimum

\* C24 as stated: validate_fix passes a nil or empty fixed geometry iff
\* allow_deletion is true; a non-empty fixed geometry fails iff it is invalid,
\* or has zero area while the original's was positive, or the post/pre area
\* ratio is above max_area_ratio_change or below its reciprocal, or the fixed
\* area is below min_area_m2.
C24_PassAndFailConditions ==
    Validated =>
        IF ValidatedNothing
        THEN Passed <=> The(val_call).allow_deletion
        ELSE ~Passed <=> (Invalid \/ LostArea \/ RatioOutOfRange \/ BelowMinimum)

\* C24 amended: as above, with the minimum-area condition holding for a fixed
\* area that is positive and below min_area_m2 (a fixed geometry without area
\* passes when the original had none either).
C24_PassAndFailAmended ==
    Validated =>
        IF ValidatedNothing
        THEN Passed <=> The(val_call).allow_deletion
        ELSE ~Passed <=> (Invalid \/ LostArea \/ RatioOutOfRange \/ PositiveBelowMinimum)

\* a valid fixed geometry whose area equals min_area_m2, with the ratio in
\* range, has passed
C24_Witness ==
    /\ Validated
    /\ ~ValidatedNothing
    /\ FixedGeometry.is_valid
    /\ FixedGeometry.area = The(val_call).self.min_area_m2
    /\ ~RatioOutOfRange
    /\ Passed

FiveChecks == <<"null_check", "validity_check", "area_check", "area_ratio_check",
                "min_area_check">>
Failures == The(val_result).failures
Failed(message) == \E i \in 1..Len(Failures) : Failures[i] = message

\* C29: passed is true iff failures is empty; a nil or empty fixed geometry
\* records only the null check; any other records all five checks in the
\* order null, validity, area, area-ratio, minimum-area, and every check that
\* fails is reported whatever the earlier checks found.
C29_ChecksRunAndPassed ==
    Validated =>
        /\ Passed <=> Failures = <<>>
        /\ IF ValidatedNothing
           THEN The(val_result).checks_run = <<"null_check">>
           ELSE /\ The(val_result).checks_run = FiveChecks
                /\ Invalid <=> Failed("Fixed geometry is invalid")
                /\ LostArea <=> Failed("Fixed geometry has zero area")
                /\ (FixedGeometry.area > 0 /\ RatioOutOfRange)
                       <=> (Failed("Area increased") \/ Failed("Area decreased"))
                /\ PositiveBelowMinimum <=> Failed("Fixed geometry area below minimum")

\* an invalid fixed geometry that is also too small has run all five checks
\* and reported both failures
C29_Witness ==
    /\ Validated
    /\ ~ValidatedNothing
    /\ Invalid
    /\ PositiveBelowMinimum
    /\ The(val_result).checks_run = FiveChecks
    /\ Len(Failures) >= 2
    /\ ~Passed

----------------------------------------------------------------------------
(* core/cache.py.  A query is a sequence of characters.                    *)

\* str.lower() on one character
Lower(c) == CASE c = "A" -> "a" [] c = "B" -> "b" [] OTHER -> c
IsSpace(c) == c = " "
\* \w of the re module
IsWord(c) == c \in {"a", "b", "A", "B"}

RECURSIVE LStrip(_)
LStrip(s) == IF s # <<>> /\ IsSpace(Head(s)) THEN LStrip(Tail(s)) ELSE s
RECURSIVE RStrip(_)
RStrip(s) ==
    IF s # <<>> /\ IsSpace(s[Len(s)]) THEN RStrip(SubSeq(s, 1, Len(s) - 1)) ELSE s

\* re.sub(r"\s+", " ", text)
RECURSIVE CollapseSpaces(_)
CollapseSpaces(s) ==
    IF Len(s) < 2 THEN s
    ELSE IF IsSpace(s[1]) /\ IsSpace(s[2]) THEN CollapseSpaces(Tail(s))
    ELSE <<s[1]>> \o CollapseSpaces(Tail(s))

\* re.sub(r"[^\w\s]", "", text)
RemovePunctuation(s) == SelectSeq(s, LAMBDA c : IsWord(c) \/ IsSpace(c))

\* ResponseCache._normalize
_normalize(query) ==
    RemovePunctuation(CollapseSpaces(RStrip(LStrip([i \in 1..Len(query) |-> Lower(query[i])]))))

\* ResponseCache._hash: hashlib.sha256(text.encode()).hexdigest()[:16], for the
\* texts the queries below normalize to
_hash(text) ==
    CASE text = <<"a", " ", "b">> -> "c8687a08aa5d6ed2"
      [] text = <<"a", " ", " ", "b">> -> "6e12db73209a66d1"
      [] text = <<"b">> -> "3e23e8160039594a"
      [] text = <<>> -> "e3b0c44298fc1c14"

\* ResponseCache.__init__
ResponseCache(max_size, ttl_seconds) == [max_size |-> max_size, ttl |-> ttl_seconds]

CacheEntry(key, response, ts) == [key |-> key, response |-> response, ts |-> ts]
CacheKeys(c) == {c[i].key : i \in 1..Len(c)}
\* self._cache.get(key)
CacheLookup(c, key) == SelectSeq(c, LAMBDA e : e.key = key)
\* del self._cache[key]
CacheDelete(c, key) == SelectSeq(c, LAMBDA e : e.key # key)
\* self._cache[key] = (response, ts): an existing key keeps its place in the dict
CacheStore(c, key, response, ts) ==
    IF key \in CacheKeys(c)
    THEN [i \in 1..Len(c) |-> IF c[i].key = key THEN CacheEntry(key, response, ts) ELSE c[i]]
    ELSE Append(c, CacheEntry(key, response, ts))

\* min(self._cache, key=lambda k: self._cache[k][1]): the first key, in dict
\* order, with the smallest timestamp
OldestKey(c) ==
    c[CHOOSE i \in 1..Len(c) :
        /\ \A j \in 1..Len(c) : c[i].ts <= c[j].ts
        /\ \A j \in 1..(i - 1) : c[j].ts > c[i].ts].key

\* a get that never expires an entry
get_ignoring_ttl(self, c, t, query) ==
    IF CacheLookup(c, _hash(_normalize(query))) = <<>>
    THEN [ret |-> None, cache |-> c]
    ELSE [ret |-> Some(CacheLookup(c, _hash(_normalize(query)))[1].response), cache |-> c]

\* ResponseCache.get(query) at time t: what it returns and the cache it leaves
get(self, c, t, query) ==
    IF CacheLookup(c, _hash(_normalize(query))) = <<>>
    THEN [ret |-> None, cache |-> c]
    ELSE IF t - CacheLookup(c, _hash(_normalize(query)))[1].ts > self.ttl
         THEN [ret |-> None, cache |-> CacheDelete(c, _hash(_normalize(query)))]
         ELSE [ret |-> Some(CacheLookup(c, _hash(_normalize(query)))[1].response),
               cache |-> c]

\* the eviction step of put
Evicted(self, c) ==
    IF Len(c) >= self.max_size THEN CacheDelete(c, OldestKey(c)) ELSE c

\* ResponseCache.put(query, response) at time t: the cache it leaves
put(self, c, t, query, response) ==
    CacheStore(Evicted(self, c), _hash(_normalize(query)), response, t)

\* bounds of the cache model
MaxTime == 3
MaxCacheOps == 4

Queries == {<<"A", " ", "b", "?">>, <<" ", "a", " ", " ", "b", " ">>,
            <<"a", " ", "?", " ", "b">>, <<"B">>}
Responses == {"r1", "r2"}
Caches == {ResponseCache(1, 1), ResponseCache(2, 1)}

\* history kept beside the cache
RecordPut(key, response, t) ==
    {p \in last_put : p[1] # key} \cup {<<key, [response |-> response, ts |-> t]>>}
RecordUse(key) == Append(SelectSeq(use_order, LAMBDA k : k # key), key)

\* ResponseCache(max_size, ttl_seconds)
NewCache(self) ==
    /\ cache_cfg = None
    /\ cache_cfg' = Some(self)
    /\ UNCHANGED <<cache, now, cache_steps, cache_op, got, last_put, use_order>>
    /\ UNCHANGED <<coreVars, valVars, batchVars, agentVars>>

\* time passes
Tick ==
    /\ cache_cfg # None
    /\ now < MaxTime
    /\ now' = now + 1
    /\ UNCHANGED <<cache_cfg, cache, cache_steps, cache_op, got, last_put, use_order>>
    /\ UNCHANGED <<coreVars, valVars, batchVars, agentVars>>

CachePut(query, response) ==
    /\ cache_cfg # None
    /\ cache_steps < MaxCacheOps
    /\ cache_steps' = cache_steps + 1
    /\ cache_op' = Some([n |-> cache_steps + 1, op |-> "put", query |-> query,
                         response |-> response])
    /\ cache' = put(The(cache_cfg), cache, now, query, response)
    /\ got' = None
    /\ last_put' = RecordPut(_hash(_normalize(query)), response, now)
    /\ use_order' = RecordUse(_hash(_normalize(query)))
    /\ UNCHANGED <<cache_cfg, now>>
    /\ UNCHANGED <<coreVars, valVars, batchVars, agentVars>>

CacheGet(query) ==
    /\ cache_cfg # None
    /\ cache_steps < MaxCacheOps
    /\ cache_steps' = cache_steps + 1
    /\ cache_op' = Some([n |-> cache_steps + 1, op |-> "get", query |-> query,
                         response |-> ""])
    /\ cache' = get(The(cache_cfg), cache, now, query).cache
    /\ got' = get(The(cache_cfg), cache, now, query).ret
    /\ use_order' = IF get(The(cache_cfg), cache, now, query).ret # None
                    THEN RecordUse(_hash(_normalize(query))) ELSE use_order
    /\ UNCHANGED <<cache_cfg, now, last_put>>
    /\ UNCHANGED <<coreVars, valVars, batchVars, agentVars>>

\* ResponseCache.invalidate()
Invalidate ==
    /\ cache_cfg # None
    /\ cache_steps < MaxCacheOps
    /\ cache_steps' = cache_steps + 1
    /\ cache_op' = Some([n |-> cache_steps + 1, op |-> "invalidate", query |-> <<>>,
                         response |-> ""])
    /\ cache' = <<>>
    /\ got' = None
    /\ UNCHANGED <<cache_cfg, now, last_put, use_order>>
    /\ UNCHANGED <<coreVars, valVars, batchVars, agentVars>>

CacheNext ==
    \/ \E self \in Caches : NewCache(self)
    \/ Tick
    \/ \E query \in Queries, response \in Responses : CachePut(query, response)
    \/ \E query \in Queries : CacheGet(query)
    \/ Invalidate

CacheSpec == Init /\ [][CacheNext]_vars

(* properties of the response cache *)

CacheStep(op) ==
    /\ cache_op' # cache_op
    /\ The(cache_op').op = op
StepKey == _hash(_normalize(The(cache_op').query))
LatestPut(key) == DictGet(last_put, key, [response |-> "", ts |-> 0])

SizeBound == cache_cfg # None => Len(cache) <= The(cache_cfg).max_size

\* what a get of StepKey has to return: the response of the latest put for
\* the key if the key is still stored and that put is at most ttl seconds old
FreshResponse ==
    IF /\ StepKey \in CacheKeys(cache)
       /\ HasKey(last_put, StepKey)
       /\ now - LatestPut(StepKey).ts <= The(cache_cfg).ttl
    THEN Some(LatestPut(StepKey).response)
    ELSE None

GetAnswers == CacheStep("get") => got' = FreshResponse

\* C26: the number of stored entries never exceeds max_size (>= 1), and a get
\* returns the response most recently put for the same normalized text when
\* that put is at most ttl seconds old and its entry has not been evicted or
\* invalidated, and nothing otherwise.
C26_SizeBoundAndFreshGet == []SizeBound /\ [][GetAnswers]_vars

\* a get has returned a response from a full cache that had evicted another key
C26_Witness ==
    /\ cache_cfg # None
    /\ cache_op # None
    /\ The(cache_op).op = "get"
    /\ got # None
    /\ Len(cache) = The(cache_cfg).max_size
    /\ \E p \in last_put : p[1] \notin CacheKeys(cache)

\* the stored key used least recently
LeastRecentlyUsed ==
    SelectSeq(use_order, LAMBDA k : k \in CacheKeys(cache))[1]

PutEvictsLru ==
    CacheStep("put") =>
        CacheKeys(cache') =
            IF StepKey \in CacheKeys(cache) THEN CacheKeys(cache)
            ELSE IF Len(cache) >= The(cache_cfg).max_size
                 THEN (CacheKeys(cache) \ {LeastRecentlyUsed}) \cup {StepKey}
                 ELSE CacheKeys(cache) \cup {StepKey}

\* C27: a put that finds the cache at capacity removes the entry least
\* recently used, a put and a successful get both counting as a use; a put for
\* a query already cached replaces its entry and removes no other entry.
C27_LruEviction == [][PutEvictsLru]_vars

----------------------------------------------------------------------------
(* decision/engine.py: decide_batch                                        *)

\* the list comprehension of decide_batch, given how each decide call ends
\* (decisions[i]: the i-th call, were it reached): the calls up to the first
\* that raises are made, and their strategies collected
FirstRaising(decisions) ==
    IF \E i \in 1..Len(decisions) : decisions[i].raised # ""
    THEN CHOOSE i \in 1..Len(decisions) :
            /\ decisions[i].raised # ""
            /\ \A j \in 1..(i - 1) : decisions[j].raised = ""
    ELSE 0

Comprehension(errs, decisions) ==
    IF FirstRaising(decisions) = 0
    THEN [ret |-> Some([i \in 1..Len(errs) |-> The(decisions[i].ret)]),
          raised |-> "", invoked |-> errs, errors |-> errs]
    ELSE [ret |-> None,
          raised |-> decisions[FirstRaising(decisions)].raised,
          invoked |-> SubSeq(errs, 1, FirstRaising(decisions)),
          errors |-> errs]

\* DecisionEngine.decide_batch(errors, metadata); oracles[i] is how the LLM
\* behaves during the i-th decide call
decide_batch(rs, errs, meta, oracles) ==
    Comprehension(errs,
        [i \in 1..Len(errs) |-> decide(rs, errs[i], meta, FALSE, oracles[i])])

MaxBatch == 2

BatchErrors == {E_dup, E_overlap, E_unknown}
\* the LLM recommends with confidence 0.6; recommends with confidence 0.3 and a
\* null reasoning; fails
BatchOracles ==
    {OracleBehaviour("ok", "responds",
         <<DocTok(Recommendation(PyStr("snap"), PyNum(60), PyStr("LLM says so")))>>),
     OracleBehaviour("ok", "responds",
         <<DocTok(Recommendation(PyStr("snap"), PyNum(30), PyNull))>>),
     OracleBehaviour("ok", "raises", <<>>)}

DecideBatch(errs, meta, oracles) ==
    /\ batch_call' = Some([errors |-> errs, metadata |-> meta, oracles |-> oracles])
    /\ \E r \in {decide_batch(rules, errs, meta, oracles)} :
        /\ batch_invoked' = r.invoked
        /\ batch_ret' = r.ret
        /\ batch_raised' = r.raised
        /\ batch_errors' = r.errors
    /\ UNCHANGED <<coreVars, valVars, cacheVars, agentVars>>

BatchNext ==
    \/ BuildDefault
    \/ \E n \in 0..MaxBatch :
         \E errs \in [1..n -> BatchErrors], oracles \in [1..n -> BatchOracles] :
            DecideBatch(errs, {}, oracles)

BatchSpec == Init /\ [][BatchNext]_vars

BatchCalled == batch_call # None

\* C25: decide_batch returns exactly one strategy per input error, in input
\* order: the i-th strategy refers to the i-th error, decide is invoked on the
\* errors in list order, and the input list is left as it was.
C25_BatchOneStrategyPerError ==
    BatchCalled =>
        /\ batch_ret # None
        /\ Len(The(batch_ret)) = Len(The(batch_call).errors)
        /\ \A i \in 1..Len(The(batch_call).errors) :
              The(batch_ret)[i].error = The(batch_call).errors[i]
        /\ batch_invoked = The(batch_call).errors
        /\ batch_errors = The(batch_call).errors

----------------------------------------------------------------------------
(* chat/agent.py: GeoFixAgent.stream.  A message is kept by its kind.      *)

MAX_HISTORY_MESSAGES == 40
MAX_AGENT_STEPS == 10

\* non_system[-(max_messages):]
LastOf(s, n) == IF Len(s) <= n THEN s ELSE SubSeq(s, Len(s) - n + 1, Len(s))

_trim_history(msgs) ==
    IF Len(msgs) <= MAX_HISTORY_MESSAGES + 1
    THEN msgs
    ELSE SelectSeq(msgs, LAMBDA m : m = "system")
            \o LastOf(SelectSeq(msgs, LAMBDA m : m # "system"), MAX_HISTORY_MESSAGES)

\* tools.ALL_TOOLS and the tools bound when no file is uploaded
ALL_TOOLS == {"profile_data", "detect_errors", "show_errors", "fix_all_auto",
              "explain_fix", "download_fixed", "get_audit_log", "consult_encyclopedia"}
ToolsWithoutFile == {"consult_encyclopedia", "get_audit_log"}

\* the messages stream builds before the loop
InitialMessages(has_file, chat_history) ==
    _trim_history(
        <<"system">>
        \o [i \in 1..Len(chat_history) |->
                IF chat_history[i] = "user" THEN "human" ELSE "ai"]
        \o (IF has_file THEN <<>> ELSE <<"system">>)
        \o <<"human">>)

\* a chunk of the LLM's streamed response, and chunk + chunk
Chunk(content, tool_calls) == [content |-> content, tool_calls |-> tool_calls]
RECURSIVE Merged(_)
Merged(chunks) ==
    IF Len(chunks) = 1 THEN chunks[1]
    ELSE Chunk(Merged(SubSeq(chunks, 1, Len(chunks) - 1)).content,
               Merged(SubSeq(chunks, 1, Len(chunks) - 1)).tool_calls
                   \o chunks[Len(chunks)].tool_calls)

\* a loop that never runs out of steps
LoopContinues_forever(step) == TRUE

\* for _step in range(MAX_AGENT_STEPS): there is a step `step`
LoopContinues(step) == step < MAX_AGENT_STEPS

\* what one tool call leaves in `result`
ToolResult(names, tool_name, outcome) ==
    IF tool_name \notin names THEN "Tool unavailable"
    ELSE IF outcome = "raises" THEN "Tool error"
    ELSE "tool output"

\* the LLM's responses: nothing, text, text then a tool call, one tool call
\* (with a file tool, an always-bound tool, an unknown tool), two tool calls
Text == Chunk("text", <<>>)
Calls(tool_name) == Chunk("", <<tool_name>>)
ChunkLists ==
    {<<>>, <<Text>>, <<Text, Calls("consult_encyclopedia")>>,
     <<Calls("detect_errors")>>, <<Calls("no_such_tool")>>,
     <<Calls("fix_all_auto"), Calls("get_audit_log")>>}
ToolOutcomes == {"returns", "raises"}
ChatHistories ==
    {<<>>, [i \in 1..(MAX_HISTORY_MESSAGES + 2) |-> IF i % 2 = 1 THEN "user" ELSE "assistant"]}

\* stream up to the loop
StreamStart(has_file, chat_history) ==
    /\ agent_pc = "idle"
    /\ available' = IF has_file THEN ALL_TOOLS ELSE ToolsWithoutFile
    /\ messages' = InitialMessages(has_file, chat_history)
    /\ agent_step' = 0
    /\ agent_pc' = IF LoopContinues(0) THEN "llm" ELSE "done"
    /\ UNCHANGED <<llm_rounds, full_response, tool_i, tool_result, agent_exc>>
    /\ UNCHANGED <<coreVars, valVars, cacheVars, batchVars>>

\* one round: llm_with_tools.stream(messages) yields `chunks`
LlmRound(chunks) ==
    /\ agent_pc = "llm"
    /\ llm_rounds' = llm_rounds + 1
    /\ full_response' = IF chunks = <<>> THEN None ELSE Some(Merged(chunks))
    /\ messages' = IF chunks = <<>> THEN messages ELSE Append(messages, "ai")
    /\ agent_pc' = IF chunks = <<>> \/ Merged(chunks).tool_calls = <<>>
                   THEN "done" ELSE "tools"
    /\ tool_i' = 1
    /\ UNCHANGED <<agent_step, available, tool_result, agent_exc>>
    /\ UNCHANGED <<coreVars, valVars, cacheVars, batchVars>>

\* llm_with_tools.stream(messages) raises: nothing in stream catches it
LlmRaises ==
    /\ agent_pc = "llm"
    /\ llm_rounds' = llm_rounds + 1
    /\ agent_exc' = "Exception"
    /\ agent_pc' = "done"
    /\ UNCHANGED <<agent_step, available, messages, full_response, tool_i, tool_result>>
    /\ UNCHANGED <<coreVars, valVars, cacheVars, batchVars>>

\* one tool call of the response; after the last one the loop goes on to its
\* next step, if there is one
ToolCall(outcome) ==
    /\ agent_pc = "tools"
    /\ tool_result' = ToolResult(available, The(full_response).tool_calls[tool_i], outcome)
    /\ messages' = Append(messages, "tool")
    /\ IF tool_i < Len(The(full_response).tool_calls)
       THEN /\ tool_i' = tool_i + 1
            /\ UNCHANGED <<agent_pc, agent_step>>
       ELSE /\ agent_step' = agent_step + 1
            /\ agent_pc' = IF LoopContinues(agent_step + 1) THEN "llm" ELSE "done"
            /\ UNCHANGED tool_i
    /\ UNCHANGED <<llm_rounds, available, full_response, agent_exc>>
    /\ UNCHANGED <<coreVars, valVars, cacheVars, batchVars>>

StreamStep ==
    \/ \E chunks \in ChunkLists : LlmRound(chunks)
    \/ LlmRaises
    \/ \E outcome \in ToolOutcomes : ToolCall(outcome)

AgentNext ==
    \/ \E has_file \in BOOLEAN, chat_history \in ChatHistories :
          StreamStart(has_file, chat_history)
    \/ StreamStep

\* whoever iterates the generator keeps asking for the next token, and the
\* LLM and the tools answer: a step of stream that can be taken is taken
AgentSpec == Init /\ [][AgentNext]_vars /\ WF_vars(StreamStep)

(* properties of the agent loop *)

Streaming == agent_pc \in {"llm", "tools"}
Ended == agent_pc = "done"
QuietResponse(response) == response = None \/ The(response).tool_calls = <<>>

RoundsBounded == llm_rounds <= MAX_AGENT_STEPS

\* a round whose response asks for no tool ends the call
EndsAtQuietRound ==
    (llm_rounds' = llm_rounds + 1 /\ agent_exc' = "" /\ QuietResponse(full_response'))
        => agent_pc' = "done"

\* once ended, no further round
StaysEnded == Ended => (agent_pc' = "done" /\ llm_rounds' = llm_rounds)

\* it has not ended before such a round unless the steps ran out
EndedForAReason ==
    Ended => \/ agent_exc # ""
             \/ llm_rounds >= 1 /\ QuietResponse(full_response)
             \/ llm_rounds = MAX_AGENT_STEPS

\* C30: whatever the LLM answers (also a tool call in every response) and
\* whatever the tools do (unknown, raising), stream makes at most
\* MAX_AGENT_STEPS LLM rounds and then ends, and it ends at the first round
\* whose response requests no tool call.
C30_AgentLoopTerminates ==
    /\ []RoundsBounded
    /\ []EndedForAReason
    /\ [][EndsAtQuietRound /\ StaysEnded]_vars
    /\ (Streaming ~> Ended)

\* the call has ended after MAX_AGENT_STEPS rounds that all asked for tools,
\* the last tool call hitting an unknown or raising tool
C30_Witness ==
    /\ Ended
    /\ llm_rounds = MAX_AGENT_STEPS
    /\ ~QuietResponse(full_response)
    /\ tool_result \in {"Tool unavailable", "Tool error"}

====
